---- MODULE Spec2Model ----
(***************************************************************************)
(* Outfit scoring and colour extraction engine of the Outfit Evaluator API *)
(* (app/models/outfit_analyzer.py, app/models/color_detector.py,           *)
(* app/services/model_loader.py, app/config.py, app/main.py).              *)
(*                                                                         *)
(* Number representation.  The program computes with floats.  A decimal    *)
(* is held as an integer number of units:                                  *)
(*   - a sub-score (clip_score, color_harmony, completeness, coherence)    *)
(*     in hundredths of a point: 6.0 is 600, 0.5 is 50;                    *)
(*   - a weight of SCORING_WEIGHTS in tenths: 0.6 is 6;                    *)
(*   - a final score, the weighted sum, therefore in thousandths of a      *)
(*     point: 7.8 is 7800;                                                 *)
(*   - a similarity in hundredths: 0.25 is 25.                             *)
(* A float is the pair [dec, exc] of the section "Python floats": its      *)
(* decimal and what the double exceeds the decimal by.  The rule-based     *)
(* scores are multiples of 0.5, which a double holds exactly: the          *)
(* operators that compute them return the plain integer.                   *)
(* None (a Python None, no file, no value) is 0 for a temp path and an     *)
(* empty sequence for a list, as commented at each field.                  *)
(***************************************************************************)
EXTENDS Integers, Sequences, FiniteSets, TLC

VARIABLES
    yolo_model,     \* model_loader.yolo_model is not None
    clip_model,     \* model_loader.clip_model / clip_preprocess are not None
    _models_ready,  \* OutfitAnalyzer._models_ready of the process-wide analyzer
    outfit_analyzer, \* main.py's global outfit_analyzer is not None
    temp_files,     \* ColorDetector.temp_files: sequence of tracked temp paths
    disk,           \* temp files that exist on disk (set of paths)
    next_path,      \* the next fresh name tempfile.mkstemp hands out
    ext,            \* frames of get_colors_from_bbox calls, one per caller
    req,            \* analysis requests (calls of analyze_outfit)
    eng,            \* a scoring-engine call: its arguments and its outputs
    fin,            \* a _calculate_final_score call: scores dict and result
    cls             \* a _classify_color_simple call: the sample and the name

vars == <<yolo_model, clip_model, _models_ready, outfit_analyzer, temp_files,
          disk, next_path, ext, req, eng, fin, cls>>

(***************************************************************************)
(* app/config.py                                                           *)
(***************************************************************************)
CLASS_NAMES ==
    <<"sunglass", "hat", "jacket", "shirt", "pants",
      "shorts", "skirt", "dress", "bag", "shoe">>

ClassSet == {CLASS_NAMES[i] : i \in 1..Len(CLASS_NAMES)}

OCCASIONS ==
    [job_interview   |-> "professional job interview",
     date_night      |-> "romantic date night",
     casual_hangout  |-> "casual social gathering",
     work_meeting    |-> "business work meeting",
     formal_event    |-> "formal wedding or gala event",
     beach_vacation  |-> "beach or vacation setting",
     night_out       |-> "night out with friends",
     business_casual |-> "business casual workplace"]

OccasionKeys == DOMAIN OCCASIONS

\* weights in tenths: 0.6, 0.2, 0.1, 0.1
SCORING_WEIGHTS ==
    [clip_contextual   |-> 6,
     color_harmony     |-> 2,
     item_completeness |-> 1,
     style_coherence   |-> 1]

(***************************************************************************)
(* Helpers for Python lists and numbers                                    *)
(***************************************************************************)
\* min(max(x, lo), hi)
Clamp(x, lo, hi) == IF x < lo THEN lo ELSE IF x > hi THEN hi ELSE x

\* x in list
In(x, list) == \E i \in 1..Len(list) : list[i] = x

\* set(list)
SetOf(list) == {list[i] : i \in 1..Len(list)}

\* list[:n]
Take(list, n) == SubSeq(list, 1, IF n < Len(list) THEN n ELSE Len(list))

\* every sequence over S of length at most n
SeqUpTo(S, n) == UNION {[1..k -> S] : k \in 0..n}

\* 1 for a condition that holds, 0 for one that does not
Ind(b) == IF b THEN 1 ELSE 0

(***************************************************************************)
(* Python floats (IEEE-754 doubles)                                        *)
(*                                                                         *)
(* A float is held as [dec, exc]: dec is the decimal the float stands for, *)
(* as an integer number of units (tenths for a weight, hundredths for a    *)
(* sub-score or a similarity, thousandths for a final score), and exc is   *)
(* what the double exceeds that decimal by, counted in 2^-60 of one unit.  *)
(* The double 7.800000000000001 is [dec |-> 7800, exc |-> 819200] in       *)
(* thousandths: 7.8 + 819200 * 2^-60 / 1000.  Every double met here is a   *)
(* multiple of 2^-60 and lies below 16, so the pair is exact, and each     *)
(* operation rounds its exact result to the nearest double, ties to even,  *)
(* as the hardware does.                                                   *)
(***************************************************************************)
Float(dec, exc) == [dec |-> dec, exc |-> exc]

\* a decimal that a double holds exactly (0, 6.0, 7.5, ...)
Exact(dec) == Float(dec, 0)

Sign(n) == IF n > 0 THEN 1 ELSE IF n < 0 THEN 0 - 1 ELSE 0

\* x < n, x > n, x >= n for a float x and a whole number n of x's units
Below(x, n) == x.dec < n \/ (x.dec = n /\ x.exc < 0)
Above(x, n) == x.dec > n \/ (x.dec = n /\ x.exc > 0)
AtLeast(x, n) == ~Below(x, n)

\* 2^j modulo K
RECURSIVE Pow2Mod(_, _)
Pow2Mod(j, K) == IF j = 0 THEN 1 ELSE (2 * Pow2Mod(j - 1, K)) % K

Pow2ModTable == [K \in {10, 100, 1000} |-> [j \in 0..60 |-> Pow2Mod(j, K)]]

\* the positive number (dec + exc * 2^-60) / K is at least 2^e
AtLeastPow2(dec, exc, K, e) ==
    LET a == IF e < 0 THEN dec * 2^(0 - e) ELSE dec
        b == IF e > 0 THEN K * 2^e ELSE K
    IN  a > b \/ (a = b /\ exc >= 0)

\* the binary exponent of a positive number below 16: the largest e of -8..e0
\* with 2^e at most the number, and -9 for a number below 2^-8
RECURSIVE BinaryExponent(_, _, _, _)
BinaryExponent(dec, exc, K, e0) ==
    IF e0 < 0 - 8 THEN 0 - 9
    ELSE IF AtLeastPow2(dec, exc, K, e0) THEN e0
    ELSE BinaryExponent(dec, exc, K, e0 - 1)

\* The excess of the double nearest to the positive number
\* (dec + exc * 2^-60) / K + tiny, where tiny is a term smaller than 2^-60 of
\* a unit of which only the sign is given.  Doubles with exponent e are
\* 2^(e-52) apart, which is G = K * 2^(8+e) in 2^-60 of a unit; r is the number
\* modulo 2G, so rho is how far it lies above a double and r >= G says that
\* double has an odd mantissa.
RoundPositive(dec, exc, K, tiny) ==
    LET e == BinaryExponent(dec, exc, K, 3)
        G == K * 2^(8 + e)
        r == (2^(9 + e) * (((dec % K) * Pow2ModTable[K][51 - e]) % K) + exc) % (2 * G)
        rho == r % G
        up == IF 2 * rho < G THEN FALSE
              ELSE IF 2 * rho > G THEN TRUE
              ELSE IF tiny # 0 THEN tiny > 0
              ELSE r >= G
    IN  IF e < 0 - 8 THEN exc
        ELSE IF rho = 0 THEN exc
        ELSE IF up THEN exc + G - rho
        ELSE exc - rho

\* the double nearest to (dec + exc * 2^-60) / K + tiny
RoundToDouble(dec, exc, K, tiny) ==
    IF dec > 0 \/ (dec = 0 /\ exc > 0) THEN Float(dec, RoundPositive(dec, exc, K, tiny))
    ELSE IF dec = 0 /\ exc = 0 THEN Exact(0)
    ELSE Float(dec, 0 - RoundPositive(0 - dec, 0 - exc, K, 0 - tiny))

\* the double a decimal literal or a decimal input stands for: n units of 1/K
DoubleOf(n, K) == RoundToDouble(n, 0, K, 0)

\* w * x for a weight w in tenths and a sub-score x in hundredths: thousandths.
\* The exact product is (w.dec * x.dec) + (w.dec * x.exc + w.exc * x.dec) * 2^-60
\* + w.exc * x.exc * 2^-120.
DoubleTimes(w, x) ==
    RoundToDouble(w.dec * x.dec, w.dec * x.exc + w.exc * x.dec, 1000,
                  Sign(w.exc) * Sign(x.exc))

\* x + y for two floats of the same unit 1/K
DoublePlus(x, y, K) == RoundToDouble(x.dec + y.dec, x.exc + y.exc, K, 0)

\* min(max(x, 0), hi) for a float x and hi whole units
ClampFloat(x, hi) ==
    IF Below(x, 0) THEN Exact(0) ELSE IF Above(x, hi) THEN Exact(hi) ELSE x

\* round(x, 1) in tenths, for a float x in units of 1/K: Python rounds the
\* double itself, so a decimal halfway between two tenths goes the way its
\* double lies, and to the even tenth when the double is exactly halfway
Round1(x, K) ==
    LET d == K \div 10
        q == x.dec \div d
        m == x.dec % d
    IN  IF 2 * m < d THEN q
        ELSE IF 2 * m > d THEN q + 1
        ELSE IF x.exc < 0 THEN q
        ELSE IF x.exc > 0 THEN q + 1
        ELSE IF q % 2 = 0 THEN q ELSE q + 1

\* A completeness table with adjustable entries: w.shorts is the penalty for
\* shorts at a formal-leaning occasion, w.each the further penalty at a formal
\* event when shorts and sunglasses are both present, w.jacket the penalty for
\* a jacket at the beach, and w.classes says whether the item count of the
\* other occasions counts classes instead of detections.
CompletenessTable(items, occasion, w) ==
    LET S == SetOf(items)
        n == IF w.classes THEN Cardinality(S) ELSE Len(items)
        score ==
          IF occasion \in {"job_interview", "work_meeting", "business_casual"} THEN
              500 + 200 * Ind("shirt" \in S /\ ({"pants", "skirt"} \cap S # {}))
                  + 100 * Ind("jacket" \in S) + 100 * Ind("shoe" \in S)
                  - w.shorts * Ind("shorts" \in S)
          ELSE IF occasion = "formal_event" THEN
              500 + 200 * Ind("dress" \in S \/ {"shirt", "pants"} \subseteq S)
                  + 100 * Ind("shoe" \in S)
                  - 100 * Ind({"shorts", "sunglass"} \cap S # {})
                  - w.each * Ind({"shorts", "sunglass"} \subseteq S)
          ELSE IF occasion = "beach_vacation" THEN
              500 + 100 * Ind({"shorts", "skirt", "dress"} \cap S # {})
                  + 100 * Ind("sunglass" \in S) - w.jacket * Ind("jacket" \in S)
          ELSE 500 + 100 * Ind(n >= 2) + 50 * Ind("shoe" \in S)
    IN  Clamp(score, 0, 1000)

\* the entries of the table as the program has them
TableEntries == [shorts |-> 200, each |-> 0, jacket |-> 100, classes |-> FALSE]

\* completeness with shorts not penalised at formal-leaning occasions
CompletenessShortsAllowed(items, occasion) ==
    CompletenessTable(items, occasion, [TableEntries EXCEPT !.shorts = 0])

\* completeness with the formal-event penalty taken per casual item
CompletenessPenaltyPerItem(items, occasion) ==
    CompletenessTable(items, occasion, [TableEntries EXCEPT !.each = 100])

\* completeness with a jacket not penalised at the beach
CompletenessJacketAllowed(items, occasion) ==
    CompletenessTable(items, occasion, [TableEntries EXCEPT !.jacket = 0])

\* completeness with the item count taken over distinct classes
CompletenessCountsClasses(items, occasion) ==
    CompletenessTable(items, occasion, [TableEntries EXCEPT !.classes = TRUE])

\* completeness with a penalty of 6.0 for shorts at formal-leaning occasions
CompletenessShortsBanned(items, occasion) ==
    CompletenessTable(items, occasion, [TableEntries EXCEPT !.shorts = 600])

\* coherence with the same deduction for casual items at a strict occasion
\* whether or not a formal item is present
CoherenceFlatCasualPenalty(items, occasion) ==
    LET has_casual == In("shorts", items) \/ In("sunglass", items)
        has_formal == In("jacket", items) \/ In("shirt", items)
    IN  IF occasion \in {"job_interview", "work_meeting", "formal_event"}
        THEN 700 - 200 * Ind(has_casual)
        ELSE IF occasion \in {"beach_vacation", "casual_hangout"}
        THEN 700 - 100 * Ind(has_formal /\ ~has_casual)
        ELSE 700


(***************************************************************************)
(* OutfitAnalyzer: the scoring engine (outfit_analyzer.py)                 *)
(***************************************************************************)

\* self.scoring_weights: the doubles that the literals 0.6, 0.2, 0.1 and 0.1
\* of SCORING_WEIGHTS stand for, in tenths
scoring_weights ==
    [k \in DOMAIN SCORING_WEIGHTS |-> DoubleOf(SCORING_WEIGHTS[k], 10)]

\* _calculate_final_score with the weight of the contextual score and of the
\* harmony score exchanged (0.2*clip + 0.6*harmony)
FinalScoreSwappedWeights(scores) ==
    LET a == DoubleTimes(scoring_weights.color_harmony, scores.clip_score)
        b == DoubleTimes(scoring_weights.clip_contextual, scores.color_harmony)
        c == DoubleTimes(scoring_weights.item_completeness, scores.completeness)
        d == DoubleTimes(scoring_weights.style_coherence, scores.coherence)
    IN  ClampFloat(DoublePlus(DoublePlus(DoublePlus(a, b, 1000), c, 1000), d, 1000),
                   10000)

\* the sum inside OutfitAnalyzer._calculate_final_score: four products, each
\* rounded to a double, added from left to right, each sum rounded to a double;
\* thousandths of a point
weighted_sum(scores) ==
    LET a == DoubleTimes(scoring_weights.clip_contextual, scores.clip_score)
        b == DoubleTimes(scoring_weights.color_harmony, scores.color_harmony)
        c == DoubleTimes(scoring_weights.item_completeness, scores.completeness)
        d == DoubleTimes(scoring_weights.style_coherence, scores.coherence)
    IN  DoublePlus(DoublePlus(DoublePlus(a, b, 1000), c, 1000), d, 1000)

\* OutfitAnalyzer._calculate_final_score: min(max(final_score, 0), 10),
\* thousandths of a point
_calculate_final_score(scores) == ClampFloat(weighted_sum(scores), 10000)

\* max(similarities)
RECURSIVE MaxOf(_)
MaxOf(list) ==
    IF Len(list) = 1 THEN list[1]
    ELSE LET m == MaxOf(Tail(list)) IN IF list[1] >= m THEN list[1] ELSE m

\* The four prompts built from the occasion description
NumPrompts == 4

\* _calculate_clip_score returning (best_similarity + 1) / 2 * 10 without the
\* final min(max(., 0), 10)
ClipScoreUnclamped(clip_loaded, occasion, sim) ==
    IF ~clip_loaded THEN Exact(600)
    ELSE IF sim.raises \/ occasion \notin OccasionKeys THEN Exact(600)
    ELSE LET best_similarity == DoubleOf(MaxOf(sim.similarities), 100)
             plus_one == DoublePlus(best_similarity, Exact(100), 100)
         IN  RoundToDouble(5 * plus_one.dec, 5 * plus_one.exc, 100, 0)

\* OutfitAnalyzer._calculate_clip_score.  clip_loaded: the CLIP handles of
\* model_loader.get_models() are not None.  sim is what the similarity backend
\* does for this image: raises (opening the image, preprocessing or encoding
\* throws) or the similarities of the prompts, in hundredths: each is the
\* double of that decimal.  An occasion without a description raises KeyError
\* inside the try block.  (best_similarity + 1) is rounded to a double, the
\* halving is exact, and the product with 10, five times the sum, is rounded
\* to a double.
_calculate_clip_score(clip_loaded, occasion, sim) ==
    IF ~clip_loaded THEN Exact(600)
    ELSE IF sim.raises \/ occasion \notin OccasionKeys THEN Exact(600)
    ELSE LET best_similarity == DoubleOf(MaxOf(sim.similarities), 100)
             plus_one == DoublePlus(best_similarity, Exact(100), 100)
             clip_score == RoundToDouble(5 * plus_one.dec, 5 * plus_one.exc, 100, 0)
         IN  ClampFloat(clip_score, 1000)

\* a clash test that fires on one warm and one cool colour
ClashOneOfEach(color_names) ==
    /\ color_names \cap {"red", "orange", "yellow", "pink"} # {}
    /\ color_names \cap {"blue", "green", "purple", "teal", "navy"} # {}

\* OutfitAnalyzer._has_clashing_colors, on the distinct names it is called with
_has_clashing_colors(color_names) ==
    LET warm_colors == {"red", "orange", "yellow", "pink"}
        cool_colors == {"blue", "green", "purple", "teal", "navy"}
        warm_count == Cardinality(color_names \cap warm_colors)
        cool_count == Cardinality(color_names \cap cool_colors)
    IN  warm_count > 1 /\ cool_count > 1

\* a harmony score that takes the deduction for more than 3 names and the
\* deduction for more than 4 names together
HarmonyDeductionsAdd(all_colors) ==
    IF Len(all_colors) = 0 THEN 500
    ELSE LET unique_colors == {all_colors[i].name : i \in 1..Len(all_colors)}
             n == Cardinality(unique_colors)
             neutral_colors ==
                 {"black", "white", "gray", "dark_gray", "light_gray", "beige"}
         IN  Clamp(700 - 200 * Ind(n > 4) - 100 * Ind(n > 3)
                       + 100 * Ind(unique_colors \cap neutral_colors # {})
                       - 150 * Ind(_has_clashing_colors(unique_colors)), 0, 1000)

\* OutfitAnalyzer._calculate_color_harmony_score; all_colors is the list of
\* colour samples of all detections
_calculate_color_harmony_score(all_colors) ==
    IF Len(all_colors) = 0 THEN 500
    ELSE LET unique_colors == {all_colors[i].name : i \in 1..Len(all_colors)}
             neutral_colors ==
                 {"black", "white", "gray", "dark_gray", "light_gray", "beige"}
             s0 == 700
             s1 == IF Cardinality(unique_colors) > 4 THEN s0 - 200
                   ELSE IF Cardinality(unique_colors) > 3 THEN s0 - 100
                   ELSE s0
             s2 == IF unique_colors \cap neutral_colors # {} THEN s1 + 100 ELSE s1
             s3 == IF _has_clashing_colors(unique_colors) THEN s2 - 150 ELSE s2
         IN  Clamp(s3, 0, 1000)

\* OutfitAnalyzer._calculate_completeness_score; items is the list of the
\* detections' classes
_calculate_completeness_score(items, occasion) ==
    LET s0 == 500
        score ==
          IF occasion \in {"job_interview", "work_meeting", "business_casual"} THEN
              LET a == IF In("shirt", items) /\ (In("pants", items) \/ In("skirt", items))
                       THEN s0 + 200 ELSE s0
                  b == IF In("jacket", items) THEN a + 100 ELSE a
                  c == IF In("shoe", items) THEN b + 100 ELSE b
              IN  IF In("shorts", items) THEN c - 200 ELSE c
          ELSE IF occasion \in {"formal_event"} THEN
              LET a == IF In("dress", items) \/ (In("shirt", items) /\ In("pants", items))
                       THEN s0 + 200 ELSE s0
                  b == IF In("shoe", items) THEN a + 100 ELSE a
              IN  IF In("shorts", items) \/ In("sunglass", items) THEN b - 100 ELSE b
          ELSE IF occasion \in {"beach_vacation"} THEN
              LET a == IF In("shorts", items) \/ In("skirt", items) \/ In("dress", items)
                       THEN s0 + 100 ELSE s0
                  b == IF In("sunglass", items) THEN a + 100 ELSE a
              IN  IF In("jacket", items) THEN b - 100 ELSE b
          ELSE
              LET a == IF Len(items) >= 2 THEN s0 + 100 ELSE s0
              IN  IF In("shoe", items) THEN a + 50 ELSE a
    IN  Clamp(score, 0, 1000)

\* OutfitAnalyzer._calculate_coherence_score
_calculate_coherence_score(items, occasion) ==
    LET s0 == 700
        formal_items == {"jacket", "shirt"}
        casual_items == {"shorts", "sunglass"}
        has_formal == \E item \in formal_items : In(item, items)
        has_casual == \E item \in casual_items : In(item, items)
        score ==
          IF occasion \in {"job_interview", "work_meeting", "formal_event"} THEN
              IF has_casual /\ has_formal THEN s0 - 200
              ELSE IF has_casual THEN s0 - 300
              ELSE s0
          ELSE IF occasion \in {"beach_vacation", "casual_hangout"} THEN
              IF has_formal /\ ~has_casual THEN s0 - 100 ELSE s0
          ELSE s0
    IN  Clamp(score, 0, 1000)

\* the classes of a list of detections: [d['class'] for d in detections]
ItemsOf(detections) == [i \in 1..Len(detections) |-> detections[i].class]

\* OutfitAnalyzer._calculate_all_scores: the scores dict
_calculate_all_scores(clip_loaded, sim, occasion, detections, all_colors) ==
    [clip_score    |-> _calculate_clip_score(clip_loaded, occasion, sim),
     color_harmony |-> Exact(_calculate_color_harmony_score(all_colors)),
     completeness  |->
         Exact(_calculate_completeness_score(ItemsOf(detections), occasion)),
     coherence     |->
         Exact(_calculate_coherence_score(ItemsOf(detections), occasion))]

\* feedback whose bands exclude their lower bound
FeedbackBandsStrict(final_score, occasion) ==
    LET occasion_name == OCCASIONS[occasion]
    IN  IF Above(final_score, 8000) THEN
            "Excellent choice for " \o occasion_name \o "! Very well put together."
        ELSE IF Above(final_score, 6000) THEN
            "Good outfit for " \o occasion_name \o ". Well coordinated overall."
        ELSE IF Above(final_score, 4000) THEN
            "Decent look for " \o occasion_name \o ", but could use some improvements."
        ELSE
            "This outfit may not be the best choice for " \o occasion_name \o "."

\* feedback with every band starting half a point lower
FeedbackBandsLowered(final_score, occasion) ==
    LET occasion_name == OCCASIONS[occasion]
    IN  IF AtLeast(final_score, 7500) THEN
            "Excellent choice for " \o occasion_name \o "! Very well put together."
        ELSE IF AtLeast(final_score, 5500) THEN
            "Good outfit for " \o occasion_name \o ". Well coordinated overall."
        ELSE IF AtLeast(final_score, 3500) THEN
            "Decent look for " \o occasion_name \o ", but could use some improvements."
        ELSE
            "This outfit may not be the best choice for " \o occasion_name \o "."

\* OutfitAnalyzer._generate_feedback; final_score in thousandths
_generate_feedback(final_score, occasion) ==
    LET occasion_name == OCCASIONS[occasion]
    IN  IF AtLeast(final_score, 8000) THEN
            "Excellent choice for " \o occasion_name \o "! Very well put together."
        ELSE IF AtLeast(final_score, 6000) THEN
            "Good outfit for " \o occasion_name \o ". Well coordinated overall."
        ELSE IF AtLeast(final_score, 4000) THEN
            "Decent look for " \o occasion_name \o ", but could use some improvements."
        ELSE
            "This outfit may not be the best choice for " \o occasion_name \o "."

(***************************************************************************)
(* SpecFinal: _calculate_final_score applied to a scores dict               *)
(***************************************************************************)

\* How far beyond [0,10] (in whole points) the sub-scores handed to
\* _calculate_final_score range
MaxOver == 1

\* whole points, which a double holds exactly
SubScoreValues == {Exact(100 * k) : k \in (0 - MaxOver)..(10 + MaxOver)}

ScoreKeys == {"clip_score", "color_harmony", "completeness", "coherence"}

\* the weight SCORING_WEIGHTS gives to a key of the scores dict
WeightOf(k) ==
    CASE k = "clip_score"    -> SCORING_WEIGHTS.clip_contextual
      [] k = "color_harmony" -> SCORING_WEIGHTS.color_harmony
      [] k = "completeness"  -> SCORING_WEIGHTS.item_completeness
      [] k = "coherence"     -> SCORING_WEIGHTS.style_coherence

\* variables a specification does not use
NoModels ==
    /\ yolo_model = FALSE /\ clip_model = FALSE
    /\ _models_ready = FALSE /\ outfit_analyzer = FALSE
NoFiles  == temp_files = <<>> /\ disk = {} /\ next_path = 1
NoFin    == fin = [scores |-> <<>>, called |-> FALSE, final_score |-> Exact(0)]
NoEng    == eng = <<>>
NoCls    == cls = [valid |-> TRUE, h |-> 0, s |-> 0, v |-> 0, name |-> "", done |-> FALSE]

modelVars == <<yolo_model, clip_model, _models_ready, outfit_analyzer>>
fileVars  == <<temp_files, disk, next_path>>

InitFinal ==
    /\ fin \in [scores : [ScoreKeys -> SubScoreValues],
                called : {FALSE}, final_score : {Exact(0)}]
    /\ NoModels /\ NoFiles /\ NoCls /\ NoEng
    /\ ext = <<>> /\ req = <<>>

\* final_score = self._calculate_final_score(scores)
CalcFinal ==
    /\ ~fin.called
    /\ fin' = [fin EXCEPT !.called = TRUE,
                          !.final_score = _calculate_final_score(fin.scores)]
    /\ UNCHANGED <<modelVars, fileVars, ext, req, eng, cls>>

\* the same call on a scores dict that differs in one sub-score
VaryScore ==
    /\ fin.called
    /\ \E k \in ScoreKeys, v \in SubScoreValues :
          /\ v # fin.scores[k]
          /\ LET scores == [fin.scores EXCEPT ![k] = v]
             IN  fin' = [fin EXCEPT !.scores = scores,
                                    !.final_score = _calculate_final_score(scores)]
    /\ UNCHANGED <<modelVars, fileVars, ext, req, eng, cls>>

NextFinal == CalcFinal \/ VaryScore

SpecFinal == InitFinal /\ [][NextFinal]_vars

\* 0.6*contextual + 0.2*color_harmony + 0.1*completeness + 0.1*coherence as a
\* decimal, in thousandths, as the claim states it
WeightedSum(scores) ==
    6 * scores.clip_score.dec + 2 * scores.color_harmony.dec
    + scores.completeness.dec + scores.coherence.dec

\* How far a sum of doubles below 16 may lie from the decimal sum: two units in
\* the last place of a double between 8 and 16, 2 * 2^-49 or 3.6e-15 of a
\* point, in 2^-60 of a thousandth
RoundingSlack == 2 * 1000 * 2^11

\* the float x is the decimal n up to the rounding of the double arithmetic
Near(x, n, slack) == x.dec = n /\ x.exc <= slack /\ 0 - x.exc <= slack

\* C1: after every call, the final score is the weighted sum
\* 0.6*contextual + 0.2*color_harmony + 0.1*completeness + 0.1*coherence clamped
\* to [0,10]; and when a second call differs from the first in exactly one
\* sub-score, by delta, and neither weighted sum is cut by the clamp, the final
\* score differs by that sub-score's weight times delta.  The program computes
\* in doubles, and the equalities hold up to the rounding of that arithmetic:
\* the decimals agree and the doubles lie within RoundingSlack of them.
C1_FinalScoreIsWeightedSum ==
    [][ /\ fin'.called =>
             Near(fin'.final_score, Clamp(WeightedSum(fin'.scores), 0, 10000),
                  RoundingSlack)
        /\ \A k \in ScoreKeys :
             ( /\ fin.called /\ fin'.called
               /\ \A j \in ScoreKeys \ {k} : fin'.scores[j] = fin.scores[j]
               /\ WeightedSum(fin.scores) \in 0..10000
               /\ WeightedSum(fin'.scores) \in 0..10000 )
             => Near(Float(fin'.final_score.dec - fin.final_score.dec,
                           fin'.final_score.exc - fin.final_score.exc),
                     WeightOf(k) * (fin'.scores[k].dec - fin.scores[k].dec),
                     2 * RoundingSlack)
      ]_vars

\* C1 witness: contextual 8.0, harmony 8.0, completeness 7.0, coherence 7.0 have
\* been combined into 7.8, which the doubles make 7.800000000000001
C1_Witness ==
    /\ fin.called
    /\ fin.scores = [clip_score |-> Exact(800), color_harmony |-> Exact(800),
                     completeness |-> Exact(700), coherence |-> Exact(700)]
    /\ fin.final_score = Float(7800, 819200)

(***************************************************************************)
(* SpecScore: the scoring engine called on given detections, colours,      *)
(* occasion and similarity backend (steps 3 to 5 of analyze_outfit)        *)
(***************************************************************************)

\* Longest list of detections handed to the scoring engine
MaxItems == 2

\* How many times the engine is called on the same arguments
MaxCalls == 2

\* the detections the engine reads: only d['class'] is used by the scores
DetectionLists ==
    {[i \in 1..Len(cs) |-> [class |-> cs[i]]] : cs \in SeqUpTo(ClassSet, MaxItems)}

\* colour names handed to the engine, in the order they are listed
EngColorOrder == <<"red", "orange", "blue", "green", "black">>

\* the list holding the names of EngColorOrder selected by the index set S
ColorListOf(S) ==
    LET Keep(i) == i \in S
        idx == SelectSeq([i \in 1..Len(EngColorOrder) |-> i], Keep)
    IN  [k \in 1..Len(idx) |-> [name |-> EngColorOrder[idx[k]]]]

\* every list of distinct names of EngColorOrder, each list of one or two names
\* with its first name repeated (two items of the same colour), and navy with
\* white
ColorLists ==
    LET distinct == {ColorListOf(S) : S \in SUBSET (1..Len(EngColorOrder))}
    IN  distinct
        \cup {l \o <<l[1]>> : l \in {d \in distinct : Len(d) \in 1..2}}
        \cup {<<[name |-> "navy"], [name |-> "white"]>>}

\* what the similarity backend does: raises, or one similarity per prompt
SimOutcomes ==
    {[raises |-> TRUE, similarities |-> <<>>]}
    \cup {[raises |-> FALSE, similarities |-> q] :
            q \in {v \in {<<-101, -101, -101, -101>>, <<-20, 60, 10, 0>>,
                          <<100, 20, 0, -5>>, <<3, 7, 12, 101>>} :
                      Len(v) = NumPrompts}}

\* the backend is consulted only when CLIP is loaded
SimOutcomesFor(clip_loaded) ==
    IF clip_loaded THEN SimOutcomes
    ELSE {[raises |-> TRUE, similarities |-> <<>>]}

InitScore ==
    /\ clip_model \in BOOLEAN
    /\ yolo_model = TRUE /\ _models_ready = TRUE /\ outfit_analyzer = TRUE
    /\ \E o \in OccasionKeys, d \in DetectionLists, c \in ColorLists,
          m \in SimOutcomesFor(clip_model) :
          eng = [occasion |-> o, detections |-> d, all_colors |-> c,
                 sim |-> m, outs |-> <<>>]
    /\ NoFiles /\ NoCls /\ NoFin
    /\ ext = <<>> /\ req = <<>>

\* analyze_outfit steps 3-5: scores = self._calculate_all_scores(...);
\* final_score = self._calculate_final_score(scores);
\* feedback = self._generate_feedback(final_score, occasion).
\* The arguments are read, never written.
ScoringEngineCall(e, clip_loaded) ==
    LET scores == _calculate_all_scores(clip_loaded, e.sim, e.occasion,
                                        e.detections, e.all_colors)
        final_score == _calculate_final_score(scores)
        feedback == _generate_feedback(final_score, e.occasion)
    IN  [e EXCEPT !.outs = Append(@, [scores |-> scores, final_score |-> final_score,
                                      feedback |-> feedback])]

ScoreCall ==
    /\ Len(eng.outs) < MaxCalls
    /\ eng' = ScoringEngineCall(eng, clip_model)
    /\ UNCHANGED <<modelVars, fileVars, ext, req, fin, cls>>

NextScore == ScoreCall

SpecScore == InitScore /\ [][NextScore]_vars

\* C2: whatever the occasion, the detections, the colours and the similarity
\* backend do (unavailable, raising, any similarities), each of the four
\* sub-scores of every engine call lies in [0,10] and so does the final score.
C2_ScoresInRange ==
    \A i \in 1..Len(eng.outs) :
        /\ \A k \in DOMAIN eng.outs[i].scores :
              AtLeast(eng.outs[i].scores[k], 0) /\ ~Above(eng.outs[i].scores[k], 1000)
        /\ DOMAIN eng.outs[i].scores = ScoreKeys
        /\ AtLeast(eng.outs[i].final_score, 0)
        /\ ~Above(eng.outs[i].final_score, 10000)

\* C2 witness: the backend answered a similarity above 1 and the engine was
\* called: the contextual score sits on the upper clamp bound
C2_Witness ==
    /\ clip_model /\ ~eng.sim.raises
    /\ MaxOf(eng.sim.similarities) > 100
    /\ Len(eng.outs) >= 1
    /\ eng.outs[1].scores.clip_score = Exact(1000)

(***************************************************************************)
(* SpecEngine: the scoring engine statement by statement, called again and *)
(* again by one caller that keeps its argument objects.  The engine reaches *)
(* the caller's detections and all_colors lists (passed by reference), the *)
(* image file and the similarity backend, and the loader's CLIP handle;    *)
(* its own scores dict is local to a call.                                 *)
(***************************************************************************)

\* colour lists the caller hands over: none, navy with white, and the five
\* names of EngColorOrder
EngineColorLists ==
    {<<>>, <<[name |-> "navy"], [name |-> "white"]>>,
     ColorListOf(1..Len(EngColorOrder))}

\* scores[key] = v on a dict
Put(d, key, v) == [k \in DOMAIN d \cup {key} |-> IF k = key THEN v ELSE d[k]]

\* the argument objects as the engine finds them
ArgumentsOf(e) ==
    [occasion |-> e.occasion, detections |-> e.detections,
     all_colors |-> e.all_colors, sim |-> e.sim]

InitEngine ==
    /\ clip_model \in BOOLEAN
    /\ yolo_model = TRUE /\ _models_ready = TRUE /\ outfit_analyzer = TRUE
    /\ \E o \in OccasionKeys, d \in DetectionLists, c \in EngineColorLists,
          m \in SimOutcomesFor(clip_model) :
          eng = [occasion |-> o, detections |-> d, all_colors |-> c, sim |-> m,
                 pc |-> "idle", scores |-> <<>>, final_score |-> Exact(0),
                 found |-> ArgumentsOf([occasion |-> o, detections |-> d,
                                        all_colors |-> c, sim |-> m]),
                 outs |-> <<>>]
    /\ NoFiles /\ NoCls /\ NoFin
    /\ ext = <<>> /\ req = <<>>

\* _calculate_all_scores line 175: scores = {}.  found records the arguments
\* as this call finds them.
EngEnter ==
    /\ eng.pc = "idle" /\ Len(eng.outs) < MaxCalls
    /\ eng' = [eng EXCEPT !.pc = "clip", !.scores = <<>>,
                          !.found = ArgumentsOf(eng)]
    /\ UNCHANGED <<modelVars, fileVars, ext, req, fin, cls>>

\* line 178: scores['clip_score'] = self._calculate_clip_score(image_path,
\* occasion), which asks the loader for the CLIP handle
EngClip ==
    /\ eng.pc = "clip"
    /\ eng' = [eng EXCEPT !.pc = "harmony",
                          !.scores = Put(@, "clip_score",
                                         _calculate_clip_score(clip_model, eng.occasion,
                                                               eng.sim))]
    /\ UNCHANGED <<modelVars, fileVars, ext, req, fin, cls>>

\* a harmony score that pops the colours off the caller's list while it reads
\* them
EngHarmonyPopsColors ==
    /\ eng.pc = "harmony"
    /\ eng' = [eng EXCEPT !.pc = "completeness",
                          !.all_colors = <<>>,
                          !.scores = Put(@, "color_harmony",
                                         Exact(_calculate_color_harmony_score(
                                                   eng.all_colors)))]
    /\ UNCHANGED <<modelVars, fileVars, ext, req, fin, cls>>

\* line 182: scores['color_harmony'] =
\* self._calculate_color_harmony_score(all_colors)
EngHarmony ==
    /\ eng.pc = "harmony"
    /\ eng' = [eng EXCEPT !.pc = "completeness",
                          !.scores = Put(@, "color_harmony",
                                         Exact(_calculate_color_harmony_score(
                                                   eng.all_colors)))]
    /\ UNCHANGED <<modelVars, fileVars, ext, req, fin, cls>>

\* line 186: scores['completeness'] =
\* self._calculate_completeness_score(detections, occasion)
EngCompleteness ==
    /\ eng.pc = "completeness"
    /\ eng' = [eng EXCEPT !.pc = "coherence",
                          !.scores = Put(@, "completeness",
                                         Exact(_calculate_completeness_score(
                                                   ItemsOf(eng.detections),
                                                   eng.occasion)))]
    /\ UNCHANGED <<modelVars, fileVars, ext, req, fin, cls>>

\* lines 190-193: scores['coherence'] =
\* self._calculate_coherence_score(detections, occasion); return scores
EngCoherence ==
    /\ eng.pc = "coherence"
    /\ eng' = [eng EXCEPT !.pc = "final",
                          !.scores = Put(@, "coherence",
                                         Exact(_calculate_coherence_score(
                                                   ItemsOf(eng.detections),
                                                   eng.occasion)))]
    /\ UNCHANGED <<modelVars, fileVars, ext, req, fin, cls>>

\* analyze_outfit line 81: final_score = self._calculate_final_score(scores)
EngFinal ==
    /\ eng.pc = "final"
    /\ eng' = [eng EXCEPT !.pc = "feedback",
                          !.final_score = _calculate_final_score(eng.scores)]
    /\ UNCHANGED <<modelVars, fileVars, ext, req, fin, cls>>

\* analyze_outfit line 84: feedback = self._generate_feedback(final_score,
\* occasion); the call is over and its output is with the caller
EngFeedback ==
    /\ eng.pc = "feedback"
    /\ eng' = [eng EXCEPT !.pc = "idle",
                          !.outs = Append(@, [found |-> eng.found,
                                              scores |-> eng.scores,
                                              final_score |-> eng.final_score,
                                              feedback |->
                                                  _generate_feedback(eng.final_score,
                                                                     eng.occasion)])]
    /\ UNCHANGED <<modelVars, fileVars, ext, req, fin, cls>>

NextEngine ==
    \/ EngEnter \/ EngClip \/ EngHarmony \/ EngCompleteness \/ EngCoherence
    \/ EngFinal \/ EngFeedback

SpecEngine == InitEngine /\ [][NextEngine]_vars

\* C10: every call of the scoring engine by a caller that hands over the same
\* detections, colours, occasion and image finds these arguments as the
\* caller made them (no call has left them changed) and returns the sub-scores,
\* final score and feedback that the first call returned.
C10_EngineIdempotent ==
    LET made == IF eng.outs = <<>> THEN eng.found ELSE eng.outs[1].found
    IN  /\ ArgumentsOf(eng) = made
        /\ eng.found = made
        /\ \A i \in 1..Len(eng.outs) :
              /\ eng.outs[i].found = made
              /\ eng.outs[i].scores = eng.outs[1].scores
              /\ eng.outs[i].final_score = eng.outs[1].final_score
              /\ eng.outs[i].feedback = eng.outs[1].feedback

\* C10 witness: the engine has returned twice on two detections in navy and
\* white with the similarity backend answering
C10_Witness ==
    /\ Len(eng.outs) = 2 /\ eng.pc = "idle"
    /\ Len(eng.detections) = 2 /\ Len(eng.all_colors) = 2
    /\ clip_model /\ ~eng.sim.raises
    /\ eng.outs[2].scores.color_harmony # Exact(500)
    /\ DOMAIN eng.outs[2].scores = ScoreKeys

(***************************************************************************)
(* ColorDetector (color_detector.py)                                       *)
(*                                                                         *)
(* A colour sample is [name, method, percentage]; the rgb triple is left   *)
(* out (nothing reads it back) and percentage is 0 for a sample without    *)
(* the key, which is what x.get('percentage', 0) reads.                    *)
(***************************************************************************)

Sample(n, m, p) == [name |-> n, method |-> m, percentage |-> p]

\* ColorDetector._get_fallback_colors
_get_fallback_colors ==
    <<Sample("gray", "fallback", 0), Sample("dark_gray", "fallback", 0)>>

\* the clamp of get_colors_from_bbox without the upper clamp to the image size
ClampedBoxNoUpper(bbox, w, h) ==
    <<IF bbox[1] > 0 THEN bbox[1] ELSE 0,
      IF bbox[2] > 0 THEN bbox[2] ELSE 0,
      bbox[3], bbox[4]>>

\* get_colors_from_bbox: x1, y1 = max(0, x1), max(0, y1);
\* x2, y2 = min(w, x2), min(h, y2)
ClampedBox(bbox, w, h) ==
    <<IF bbox[1] > 0 THEN bbox[1] ELSE 0,
      IF bbox[2] > 0 THEN bbox[2] ELSE 0,
      IF bbox[3] < w THEN bbox[3] ELSE w,
      IF bbox[4] < h THEN bbox[4] ELSE h>>

\* get_colors_from_bbox: if x2 <= x1 or y2 <= y1
InvalidBox(box) == box[3] <= box[1] \/ box[4] <= box[2]

\* _combine_color_results: method_priority.get(method, 99)
method_priority(method) ==
    CASE method = "kmeans"        -> 1
      [] method = "hsv_average"   -> 2
      [] method = "hsv_saturated" -> 3
      [] method = "colorthief"    -> 4
      [] method = "saturated"     -> 5
      [] method = "average"       -> 6
      [] OTHER                    -> 99

\* the sort key (method_priority, -percentage) of a is smaller than that of b
KeyLess(a, b) ==
    \/ method_priority(a.method) < method_priority(b.method)
    \/ /\ method_priority(a.method) = method_priority(b.method)
       /\ (0 - a.percentage) < (0 - b.percentage)

\* _combine_color_results: the loop keeping the first sample of each name and
\* dropping "unknown"
RECURSIVE FirstOfEachName(_, _)
FirstOfEachName(all_colors, seen_colors) ==
    IF all_colors = <<>> THEN <<>>
    ELSE LET color == Head(all_colors)
         IN  IF color.name \notin seen_colors /\ color.name # "unknown"
             THEN <<color>> \o FirstOfEachName(Tail(all_colors),
                                               seen_colors \cup {color.name})
             ELSE FirstOfEachName(Tail(all_colors), seen_colors)

\* list.sort(key=...): a stable sort, samples with equal keys keep their order
RECURSIVE InsertByKey(_, _)
InsertByKey(sorted, x) ==
    IF sorted = <<>> THEN <<x>>
    ELSE IF KeyLess(x, Head(sorted)) THEN <<x>> \o sorted
    ELSE <<Head(sorted)>> \o InsertByKey(Tail(sorted), x)

RECURSIVE SortByKey(_)
SortByKey(list) ==
    IF list = <<>> THEN <<>>
    ELSE InsertByKey(SortByKey(SubSeq(list, 1, Len(list) - 1)), list[Len(list)])

\* the merge without the loop that removes duplicates and unknowns
CombineWithoutDedupe(colors1, colors2, colors3, n_colors) ==
    SortByKey(colors1 \o colors2 \o colors3)

\* ColorDetector._combine_color_results
_combine_color_results(colors1, colors2, colors3, n_colors) ==
    SortByKey(FirstOfEachName(colors1 \o colors2 \o colors3, {}))

\* temp_files.remove(temp_path): drops the first occurrence
RECURSIVE RemoveFirst(_, _)
RemoveFirst(list, x) ==
    IF list = <<>> THEN <<>>
    ELSE IF Head(list) = x THEN Tail(list)
    ELSE <<Head(list)>> \o RemoveFirst(Tail(list), x)

(***************************************************************************)
(* What the three extraction strategies compute on a crop.  The pixel      *)
(* arithmetic (numpy, ColorThief, k-means) is outside the model: a crop is *)
(* described by what each strategy yields on it, classified names included.*)
(***************************************************************************)

\* Image width and height in pixels
ImgW == 1
ImgH == 1

\* Largest n_colors asked of get_colors_from_bbox
MaxN == 3

\* Longest palette ColorThief returns (get_palette is asked for 3 colours)
MaxPalette == 2

\* names _classify_color_simple gives the samples of a crop
ExtNames == {"red", "gray", "unknown"}

\* two different names: the second sample is kept only when named differently
DistinctPairs == {p \in ExtNames \X ExtNames : p[1] # p[2]}

Raised == [raises |-> TRUE, colors |-> <<>>]
Yields(colors) == [raises |-> FALSE, colors |-> colors]

\* _extract_simple_colors: the average colour, and the most saturated sampled
\* pixel when it is named differently; any exception is caught
SimpleOutcomes ==
    {Raised}
    \cup {Yields(<<Sample(a, "average", 0)>>) : a \in ExtNames}
    \cup {Yields(<<Sample(p[1], "average", 0), Sample(p[2], "saturated", 0)>>) :
             p \in DistinctPairs}

\* ColorThief(temp_path).get_palette(color_count=3, quality=10), each swatch
\* classified; ColorThief may raise
ThiefOutcomes ==
    {Raised}
    \cup {Yields([i \in 1..Len(q) |-> Sample(q[i], "colorthief", 0)]) :
             q \in SeqUpTo(ExtNames, MaxPalette) \ {<<>>}}

\* shares of the clusters k-means keeps (each >= 15 %), largest first
ClusterShares == {<<100>>, <<60, 40>>, <<50, 50>>}

\* _extract_with_hsv_analysis: an exception (caught), too few valid pixels,
\* the kept k-means clusters sorted by share (at most n_colors clusters), or
\* without sklearn the average and the most saturated valid pixel
HsvOutcomes(n_colors) ==
    {Raised, Yields(<<>>)}
    \cup UNION {{Yields([i \in 1..Len(sh) |-> Sample(q[i], "kmeans", sh[i])]) :
                    q \in [1..Len(sh) -> ExtNames]} :
                sh \in {x \in ClusterShares : Len(x) <= n_colors}}
    \cup {Yields(<<Sample(a, "hsv_average", 0)>>) : a \in ExtNames}
    \cup {Yields(<<Sample(p[1], "hsv_average", 0), Sample(p[2], "hsv_saturated", 0)>>) :
             p \in DistinctPairs}

\* A crop: any content (each strategy may yield any of its outcomes), or a
\* given content, on which each strategy yields one outcome
AnyPixels == [kind |-> "any"]
Pixels(simple, save, thief, hsv) ==
    [kind |-> "given", simple |-> simple, save |-> save, thief |-> thief,
     hsv |-> hsv]

\* _save_temp_image: mkstemp fails, writing the crop fails, or the crop is saved
SaveOutcomes == {"mkstemp_fails", "write_fails", "saved"}
SaveOn(pixels) == IF pixels.kind = "any" THEN SaveOutcomes ELSE {pixels.save}

SimpleOn(pixels) == IF pixels.kind = "any" THEN SimpleOutcomes ELSE {pixels.simple}
ThiefOn(pixels) == IF pixels.kind = "any" THEN ThiefOutcomes ELSE {pixels.thief}
HsvOn(pixels, n_colors) ==
    IF pixels.kind = "any" THEN HsvOutcomes(n_colors) ELSE {pixels.hsv}

(***************************************************************************)
(* get_colors_from_bbox as a call frame.  pc is the statement the call is  *)
(* at; temp_path 0 is None; created is the set of files mkstemp made for   *)
(* this call; ran and failed are the strategies called and those that      *)
(* raised (and were caught).                                               *)
(***************************************************************************)
IdleFrame ==
    [pc |-> "idle", image_ok |-> TRUE, bbox |-> <<>>, n_colors |-> 0,
     pixels |-> AnyPixels, box |-> <<>>,
     colors_simple |-> <<>>, colors_colorthief |-> <<>>, colors_hsv |-> <<>>,
     temp_path |-> 0, created |-> {}, ran |-> {}, failed |-> {}, ret |-> <<>>]

\* the frame of a call get_colors_from_bbox(image, bbox, n_colors)
NewCall(image_ok, bbox, n_colors, pixels) ==
    [IdleFrame EXCEPT !.pc = "enter", !.image_ok = image_ok, !.bbox = bbox,
                      !.n_colors = n_colors, !.pixels = pixels]

\* lines 43-62: unpack the bbox, clamp it, return [] for an invalid box; an
\* exception (a bbox that is not four numbers, an image without a shape) goes
\* to the outer handler, which returns the fallback colours
ExtEnter(c) ==
    /\ ext[c].pc = "enter"
    /\ IF Len(ext[c].bbox) # 4 \/ ~ext[c].image_ok
       THEN ext' = [ext EXCEPT ![c].pc = "returned",
                               ![c].ret = _get_fallback_colors]
       ELSE LET box == ClampedBox(ext[c].bbox, ImgW, ImgH)
            IN  IF InvalidBox(box)
                THEN ext' = [ext EXCEPT ![c].pc = "returned", ![c].box = box,
                                        ![c].ret = <<>>]
                ELSE ext' = [ext EXCEPT ![c].pc = "simple", ![c].box = box]
    /\ UNCHANGED <<modelVars, fileVars, req, eng, fin, cls>>

\* the simple strategy without its own handler: its exception reaches the
\* outer handler of get_colors_from_bbox, which returns the fallback colours
ExtSimpleAborts(c) ==
    /\ ext[c].pc = "simple"
    /\ \E o \in SimpleOn(ext[c].pixels) :
          IF o.raises
          THEN ext' = [ext EXCEPT ![c].pc = "returned",
                                  ![c].ran = @ \cup {"simple"},
                                  ![c].failed = @ \cup {"simple"},
                                  ![c].ret = _get_fallback_colors]
          ELSE ext' = [ext EXCEPT ![c].pc = "thief_save",
                                  ![c].colors_simple = o.colors,
                                  ![c].ran = @ \cup {"simple"}]
    /\ UNCHANGED <<modelVars, fileVars, req, eng, fin, cls>>

\* line 65: colors_simple = self._extract_simple_colors(cropped, n_colors)
ExtSimple(c) ==
    /\ ext[c].pc = "simple"
    /\ \E o \in SimpleOn(ext[c].pixels) :
          ext' = [ext EXCEPT ![c].pc = "thief_save",
                             ![c].colors_simple = o.colors,
                             ![c].ran = @ \cup {"simple"},
                             ![c].failed = IF o.raises THEN @ \cup {"simple"} ELSE @]
    /\ UNCHANGED <<modelVars, fileVars, req, eng, fin, cls>>

\* lines 70, 141-144, 361-383: _extract_with_colorthief calls _save_temp_image.
\* mkstemp may fail (no file); the file exists once mkstemp returned; writing
\* the crop may fail (imwrite returns False or cvtColor raises) and then
\* _save_temp_image raises before temp_path is tracked or returned, so the
\* caller's temp_path stays None and its finally block cleans nothing.
ExtThiefSave(c) ==
    /\ ext[c].pc = "thief_save"
    /\ \E outcome \in SaveOn(ext[c].pixels) :
          CASE outcome = "mkstemp_fails" ->
                 /\ ext' = [ext EXCEPT ![c].pc = "hsv",
                                       ![c].colors_colorthief = <<>>,
                                       ![c].ran = @ \cup {"colorthief"},
                                       ![c].failed = @ \cup {"colorthief"}]
                 /\ UNCHANGED fileVars
            [] outcome = "write_fails" ->
                 /\ ext' = [ext EXCEPT ![c].pc = "hsv",
                                       ![c].colors_colorthief = <<>>,
                                       ![c].created = @ \cup {next_path},
                                       ![c].ran = @ \cup {"colorthief"},
                                       ![c].failed = @ \cup {"colorthief"}]
                 /\ disk' = disk \cup {next_path}
                 /\ next_path' = next_path + 1
                 /\ UNCHANGED temp_files
            [] outcome = "saved" ->
                 /\ ext' = [ext EXCEPT ![c].pc = "thief_palette",
                                       ![c].temp_path = next_path,
                                       ![c].created = @ \cup {next_path},
                                       ![c].ran = @ \cup {"colorthief"}]
                 /\ disk' = disk \cup {next_path}
                 /\ temp_files' = Append(temp_files, next_path)
                 /\ next_path' = next_path + 1
    /\ UNCHANGED <<modelVars, req, eng, fin, cls>>

\* lines 146-162: the palette of the saved crop, each swatch classified; an
\* exception is caught and yields []
ExtThiefPalette(c) ==
    /\ ext[c].pc = "thief_palette"
    /\ \E o \in ThiefOn(ext[c].pixels) :
          ext' = [ext EXCEPT ![c].pc = "thief_cleanup",
                             ![c].colors_colorthief = o.colors,
                             ![c].failed = IF o.raises THEN @ \cup {"colorthief"} ELSE @]
    /\ UNCHANGED <<modelVars, fileVars, req, eng, fin, cls>>

\* lines 163-165, 385-393: finally: self._cleanup_temp_file(temp_path).
\* os.unlink may raise; the handler swallows it and the path is then neither
\* deleted nor removed from temp_files.
ExtThiefCleanup(c) ==
    /\ ext[c].pc = "thief_cleanup"
    /\ LET temp_path == ext[c].temp_path
       IN  \E unlink_raises \in (IF temp_path \in disk THEN BOOLEAN ELSE {FALSE}) :
              IF unlink_raises
              THEN UNCHANGED <<disk, temp_files>>
              ELSE /\ disk' = disk \ {temp_path}
                   /\ temp_files' = RemoveFirst(temp_files, temp_path)
    /\ ext' = [ext EXCEPT ![c].pc = "hsv"]
    /\ UNCHANGED <<modelVars, next_path, req, eng, fin, cls>>

\* line 75: colors_hsv = self._extract_with_hsv_analysis(cropped, n_colors)
ExtHsv(c) ==
    /\ ext[c].pc = "hsv"
    /\ \E o \in HsvOn(ext[c].pixels, ext[c].n_colors) :
          ext' = [ext EXCEPT ![c].pc = "combine",
                             ![c].colors_hsv = o.colors,
                             ![c].ran = @ \cup {"hsv"},
                             ![c].failed = IF o.raises THEN @ \cup {"hsv"} ELSE @]
    /\ UNCHANGED <<modelVars, fileVars, req, eng, fin, cls>>

\* lines 78-83: combine the three lists and return combined_colors[:n_colors]
ExtCombine(c) ==
    /\ ext[c].pc = "combine"
    /\ LET combined_colors ==
               _combine_color_results(ext[c].colors_simple, ext[c].colors_colorthief,
                                      ext[c].colors_hsv, ext[c].n_colors)
       IN  ext' = [ext EXCEPT ![c].pc = "returned",
                              ![c].ret = Take(combined_colors, ext[c].n_colors)]
    /\ UNCHANGED <<modelVars, fileVars, req, eng, fin, cls>>

\* lines 395-398 and 385-393: cleanup_all_temp_files, which
\* OutfitAnalyzer.cleanup (outfit_analyzer.py lines 372-374, called by the
\* shutdown event, main.py line 92) and ColorDetector.__del__ (lines 400-405)
\* call.  Every tracked path is unlinked if it exists and taken off the list;
\* an unlink that raises is swallowed and leaves its path on disk and on the
\* list.  The detector is not re-entrant: the call comes while no
\* get_colors_from_bbox call and no analysis is running.
cleanup_all_temp_files ==
    /\ \A c \in DOMAIN ext : ext[c].pc \in {"idle", "returned"}
    /\ \A r \in DOMAIN req :
          req[r].pc \in {"start", "await_read", "done", "raised"}
    /\ \E stuck \in SUBSET (SetOf(temp_files) \cap disk) :
          LET Stuck(path) == path \in stuck
          IN  /\ disk' = disk \ (SetOf(temp_files) \ stuck)
              /\ temp_files' = SelectSeq(temp_files, Stuck)
    /\ UNCHANGED <<modelVars, next_path, ext, req, eng, fin, cls>>

(***************************************************************************)
(* SpecExtract: one call of get_colors_from_bbox on any arguments, and the *)
(* cleanup of the detector's temp files after it                           *)
(***************************************************************************)

\* bounding boxes with corners from one pixel outside the image on each side
Coords(size) == (0 - 1)..(size + 1)
BBoxes == {<<x1, y1, x2, y2>> : x1 \in Coords(ImgW), y1 \in Coords(ImgH),
                                x2 \in Coords(ImgW), y2 \in Coords(ImgH)}

\* bbox arguments that do not unpack into four numbers
MalformedBBoxes == {<<>>, <<0, 0, 1>>}

InitExtract ==
    /\ \E image_ok \in BOOLEAN, bbox \in BBoxes \cup MalformedBBoxes,
          n_colors \in 1..MaxN :
          ext = <<NewCall(image_ok, bbox, n_colors, AnyPixels)>>
    /\ NoModels /\ NoFiles /\ NoCls /\ NoEng /\ NoFin
    /\ req = <<>>

NextExtract ==
    \/ cleanup_all_temp_files
    \/ \E c \in {1} :
        \/ ExtEnter(c) \/ ExtSimple(c) \/ ExtThiefSave(c) \/ ExtThiefPalette(c)
        \/ ExtThiefCleanup(c) \/ ExtHsv(c) \/ ExtCombine(c)

SpecExtract == InitExtract /\ [][NextExtract]_vars

\* a strategy's list adds nothing to the merge: it is empty or all "unknown"
ContributesNothing(colors) == \A i \in 1..Len(colors) : colors[i].name = "unknown"

\* C5: when a call on a non-degenerate crop returns and every strategy failed
\* or contributed nothing, it returns the two-entry fallback [gray, dark_gray].
C5_FallbackWhenAllStrategiesFail ==
    \A c \in DOMAIN ext :
        ( /\ ext[c].pc = "returned"
          /\ ext[c].ran = {"simple", "colorthief", "hsv"}
          /\ ContributesNothing(ext[c].colors_simple)
          /\ ContributesNothing(ext[c].colors_colorthief)
          /\ ContributesNothing(ext[c].colors_hsv) )
        => ext[c].ret = _get_fallback_colors

\* C6: once a call has returned, every temp file it created is deleted and the
\* detector's temp_files list is empty.
C6_NoTempFileLeft ==
    \A c \in DOMAIN ext :
        ext[c].pc = "returned" =>
            /\ ext[c].created \cap disk = {}
            /\ temp_files = <<>>

\* C7: on every return path the returned list is at most n_colors long.
C7_AtMostNColors ==
    \A c \in DOMAIN ext :
        ext[c].pc = "returned" => Len(ext[c].ret) <= ext[c].n_colors

\* the claim's clamp of a coordinate pair to [0, size]
ClampedEmpty(lo, hi, size) ==
    (IF hi < size THEN hi ELSE size) <= (IF lo > 0 THEN lo ELSE 0)

\* the bbox of a well-formed call is degenerate once clamped to the image
DegenerateCall(f) ==
    /\ Len(f.bbox) = 4 /\ f.image_ok
    /\ \/ ClampedEmpty(f.bbox[1], f.bbox[3], ImgW)
       \/ ClampedEmpty(f.bbox[2], f.bbox[4], ImgH)

\* C8: a call whose bbox, clamped to the image bounds, is degenerate (x2 <= x1
\* or y2 <= y1, a bbox outside the image included) runs no extraction
\* strategy, creates no file, and returns the empty list, not the fallback.
C8_DegenerateBoxReturnsEmpty ==
    \A c \in DOMAIN ext :
        (ext[c].pc # "idle" /\ DegenerateCall(ext[c])) =>
            /\ ext[c].pc \in {"enter", "returned"}
            /\ ext[c].ran = {} /\ ext[c].created = {}
            /\ ext[c].pc = "returned" => ext[c].ret = <<>>

\* C8 witness: a box that is not empty as given (x1 < x2, y1 < y2) but lies to
\* the right of the image has been clamped and the call has returned []
C8_Witness ==
    \E c \in DOMAIN ext :
        /\ ext[c].pc = "returned" /\ ext[c].image_ok /\ Len(ext[c].bbox) = 4
        /\ ext[c].bbox[1] >= ImgW /\ ext[c].bbox[3] > ext[c].bbox[1]
        /\ ext[c].bbox[4] > ext[c].bbox[2]
        /\ ext[c].ret = <<>>

(***************************************************************************)
(* Requests: POST /analyze (app/main.py) and direct calls of               *)
(* OutfitAnalyzer.analyze_outfit (app/models/outfit_analyzer.py)           *)
(***************************************************************************)

\* an exception that reaches the caller; status is 0 but for an HTTPException
Error(type, status, detail) == [type |-> type, status |-> status, detail |-> detail]
NoError == Error("", 0, "")

\* outfit_analyzer.py line 60
ModelsNotLoaded == Error("RuntimeError", 0, "Models not properly loaded")
\* outfit_analyzer.py line 63
InvalidOccasion == Error("ValueError", 0, "Invalid occasion")
\* outfit_analyzer.py line 114
ImageNotLoaded == Error("ValueError", 0, "Could not load image")
\* outfit_analyzer.py line 125
YoloNotAvailable == Error("RuntimeError", 0, "YOLO model not available")
\* main.py lines 879-883
Http400InvalidOccasion == Error("HTTPException", 400, "Invalid occasion")
\* main.py lines 886-887
Http400NoFilename == Error("HTTPException", 400, "No filename provided")
\* main.py lines 892-899: the detail is validate_file's message
Http400InvalidFile == Error("HTTPException", 400, "Invalid image file")
\* main.py lines 902-908
Http500UploadFailed == Error("HTTPException", 500, "File upload failed")
\* main.py lines 914-915
Http503NoAnalyzer == Error("HTTPException", 503, "Outfit analyzer not available")
\* main.py lines 965-974: any other exception becomes an HTTP 500
Http500(e) == Error("HTTPException", 500, "Internal server error: " \o e.detail)

\* a detection dict of _detect_clothing_items; confidence in hundredths;
\* colors is the key line 162 adds (empty until then)
Detection(class, confidence, bbox) ==
    [class |-> class, confidence |-> confidence, bbox |-> bbox, colors |-> <<>>]

NoScores ==
    [clip_score |-> Exact(0), color_harmony |-> Exact(0),
     completeness |-> Exact(0), coherence |-> Exact(0)]

\* no result dict (the call has not returned one)
NoResult ==
    [style_score |-> 0, occasion |-> "", occasion_description |-> "",
     detected_items |-> <<>>,
     scoring_breakdown |-> [clip_contextual |-> 0, color_harmony |-> 0,
                            item_completeness |-> 0, style_coherence |-> 0],
     contextual_feedback |-> "", total_items |-> 0, unique_colors |-> 0]

\* the result dict with unique_colors counting every colour sample, a name
\* shared by two detections counted twice
ResultDictCountsAllColors(occasion, detections, all_colors, scores, final_score, feedback) ==
    [style_score |-> Round1(final_score, 1000),
     occasion |-> occasion,
     occasion_description |-> OCCASIONS[occasion],
     detected_items |-> detections,
     scoring_breakdown |->
         [clip_contextual   |-> Round1(scores.clip_score, 100),
          color_harmony     |-> Round1(scores.color_harmony, 100),
          item_completeness |-> Round1(scores.completeness, 100),
          style_coherence   |-> Round1(scores.coherence, 100)],
     contextual_feedback |-> feedback,
     total_items |-> Len(detections),
     unique_colors |-> Len(all_colors)]

\* analyze_outfit lines 89-104: the result dict, rounded scores in tenths
\* (analysis_time_seconds, a wall-clock reading, is left out)
ResultDict(occasion, detections, all_colors, scores, final_score, feedback) ==
    [style_score |-> Round1(final_score, 1000),
     occasion |-> occasion,
     occasion_description |-> OCCASIONS[occasion],
     detected_items |-> detections,
     scoring_breakdown |->
         [clip_contextual   |-> Round1(scores.clip_score, 100),
          color_harmony     |-> Round1(scores.color_harmony, 100),
          item_completeness |-> Round1(scores.completeness, 100),
          style_coherence   |-> Round1(scores.coherence, 100)],
     contextual_feedback |-> feedback,
     total_items |-> Len(detections),
     unique_colors |-> Cardinality({all_colors[i].name : i \in 1..Len(all_colors)})]

\* get_colors_from_bbox as a function of its arguments, for a crop of given
\* content (what each strategy and the temp-file save yield on it)
get_colors_from_bbox(image_ok, bbox, n_colors, pixels) ==
    IF Len(bbox) # 4 \/ ~image_ok THEN _get_fallback_colors
    ELSE LET box == ClampedBox(bbox, ImgW, ImgH)
         IN  IF InvalidBox(box) THEN <<>>
             ELSE LET colors_simple == pixels.simple.colors
                      colors_colorthief ==
                          IF pixels.save = "saved" THEN pixels.thief.colors ELSE <<>>
                      colors_hsv == pixels.hsv.colors
                  IN  Take(_combine_color_results(colors_simple, colors_colorthief,
                                                  colors_hsv, n_colors), n_colors)

\* the chaining of a list of lists
RECURSIVE Chain(_)
Chain(lists) == IF lists = <<>> THEN <<>> ELSE Head(lists) \o Chain(Tail(lists))

\* _extract_colors_from_detections as a function: the detections with their
\* colors, and all_colors
_extract_colors_from_detections(image, detections) ==
    LET colors == [i \in 1..Len(detections) |->
                      get_colors_from_bbox(TRUE, detections[i].bbox, 2, image.pixels[i])]
    IN  [detections |-> [i \in 1..Len(detections) |->
                            [detections[i] EXCEPT !.colors = colors[i]]],
         all_colors |-> Chain(colors)]

\* analyze_outfit as a function of the analyzer's _models_ready flag, the
\* loaded models and its arguments: the exception it raises or the result dict
\* it returns.  The flag, once set, answers the model check by itself (lines
\* 34-35); the detector is then missed by _detect_clothing_items (line 125),
\* after the image was loaded, and the similarity backend by
\* _calculate_clip_score, which answers 6.0.
analyze_outfit(models_ready, yolo_loaded, clip_loaded, occasion, image) ==
    IF ~models_ready /\ ~(yolo_loaded /\ clip_loaded)
    THEN [error |-> ModelsNotLoaded, result |-> NoResult]
    ELSE IF occasion \notin OccasionKeys THEN [error |-> InvalidOccasion, result |-> NoResult]
    ELSE IF ~image.readable THEN [error |-> ImageNotLoaded, result |-> NoResult]
    ELSE IF ~yolo_loaded THEN [error |-> YoloNotAvailable, result |-> NoResult]
    ELSE LET x == _extract_colors_from_detections(image, image.boxes)
             scores == _calculate_all_scores(clip_loaded, image.sim, occasion,
                                             x.detections, x.all_colors)
             final_score == _calculate_final_score(scores)
             feedback == _generate_feedback(final_score, occasion)
         IN  [error |-> NoError,
              result |-> ResultDict(occasion, x.detections, x.all_colors, scores,
                                    final_score, feedback)]

\* POST /analyze as a function: the HTTP error or the analysis result.
\* analyzer: the global outfit_analyzer is not None.
post_analyze(analyzer, models_ready, yolo_loaded, clip_loaded, occasion, image) ==
    IF occasion \notin OccasionKeys THEN [error |-> Http400InvalidOccasion, result |-> NoResult]
    ELSE IF ~image.filename THEN [error |-> Http400NoFilename, result |-> NoResult]
    ELSE IF ~image.valid THEN [error |-> Http400InvalidFile, result |-> NoResult]
    ELSE IF ~image.savable THEN [error |-> Http500UploadFailed, result |-> NoResult]
    ELSE IF ~analyzer THEN [error |-> Http503NoAnalyzer, result |-> NoResult]
    ELSE LET a == analyze_outfit(models_ready, yolo_loaded, clip_loaded, occasion, image)
         IN  IF a.error # NoError THEN [error |-> Http500(a.error), result |-> NoResult]
             ELSE a

\* what a request yields when it is the only one the process serves: the
\* analyzer, if there is one, is fresh
RunAlone(entry, analyzer, yolo_loaded, clip_loaded, occasion, image) ==
    IF entry = "http"
    THEN post_analyze(analyzer, FALSE, yolo_loaded, clip_loaded, occasion, image)
    ELSE analyze_outfit(FALSE, yolo_loaded, clip_loaded, occasion, image)

\* the crop that is the whole image
WholeImage == <<0, 0, ImgW, ImgH>>

\* What the three strategies read off the pixels of a crop: the list
\* _extract_simple_colors returns, the palette ColorThief reads off the saved
\* crop, and the list _extract_with_hsv_analysis returns.  Every name is one
\* _classify_color_simple returns; the second sample of the simple strategy
\* has another name than the first; the kept k-means clusters hold at least
\* 15 % each.
Content(simple, thief, hsv) == [simple |-> simple, thief |-> thief, hsv |-> hsv]

\* The content of the crop a detection's box gives, with the outcome of
\* saving that crop to a temp file.  The strategies read nothing but the
\* crop's pixels (lines 43-56): two boxes that clamp to the same crop get the
\* same outcomes, and only the save, which depends on the file system, can
\* differ between them.  An invalid box has no crop and nothing is read.
CropPixels(bbox, save, content) ==
    LET box == ClampedBox(bbox, ImgW, ImgH)
    IN  IF InvalidBox(box)
        THEN Pixels(Yields(<<>>), save, Yields(<<>>), Yields(<<>>))
        ELSE Pixels(Yields(content[box].simple), save, Yields(content[box].thief),
                    Yields(content[box].hsv))

\* An image, as what the program reads off it: whether the upload carries a
\* filename, whether file_handler.validate_file accepts it (size, extension,
\* MIME type, PIL opens it), whether save_upload can write it, whether
\* cv2.imread reads it, the boxes the detector finds, whether the crop of each
\* box can be saved, the content of the image's crops, and what the
\* similarity backend does on it.  A direct call hands over a path: only what
\* cv2.imread and the models make of it counts.
Image(valid, boxes, saves, content, sim) ==
    [filename |-> TRUE, valid |-> valid, savable |-> TRUE, readable |-> valid,
     boxes |-> boxes,
     pixels |-> [i \in 1..Len(boxes) |-> CropPixels(boxes[i].bbox, saves[i], content)],
     sim |-> sim]

\* a gray suit with a blue shirt front: the detector boxes the shirt and the
\* pants on the whole image, the box of the pants reaching over the image
\* border; the crop of the pants cannot be written to a temp file
SuitImage ==
    Image(TRUE,
          <<Detection("shirt", 90, WholeImage),
            Detection("pants", 80, <<0 - 1, 0, ImgW + 1, ImgH>>)>>,
          <<"saved", "write_fails">>,
          [crop \in {WholeImage} |->
              Content(<<Sample("gray", "average", 0), Sample("blue", "saturated", 0)>>,
                      <<Sample("gray", "colorthief", 0), Sample("white", "colorthief", 0)>>,
                      <<Sample("gray", "kmeans", 60), Sample("blue", "kmeans", 40)>>)],
          [raises |-> FALSE, similarities |-> <<0 - 20, 60, 10, 0>>])

\* shorts detected in a box outside the image and sunglasses in yellow; the
\* similarity backend raises on the image
BeachImage ==
    Image(TRUE,
          <<Detection("shorts", 70, <<ImgW, 0, ImgW + 1, ImgH>>),
            Detection("sunglass", 60, WholeImage)>>,
          <<"saved", "saved">>,
          [crop \in {WholeImage} |->
              Content(<<Sample("yellow", "average", 0)>>,
                      <<Sample("yellow", "colorthief", 0)>>,
                      <<Sample("orange", "kmeans", 100)>>)],
          [raises |-> TRUE, similarities |-> <<>>])

\* a black dress with a white buckle, the whole image boxed twice: as a dress
\* and, in a box reaching beyond the image, as a bag
TwinImage ==
    Image(TRUE,
          <<Detection("dress", 95, WholeImage),
            Detection("bag", 50, <<0, 0, ImgW + 1, ImgH + 1>>)>>,
          <<"saved", "saved">>,
          [crop \in {WholeImage} |->
              Content(<<Sample("black", "average", 0), Sample("white", "saturated", 0)>>,
                      <<Sample("black", "colorthief", 0), Sample("white", "colorthief", 0)>>,
                      <<Sample("black", "kmeans", 100)>>)],
          [raises |-> FALSE, similarities |-> <<40, 69, 0 - 10, 20>>])

\* an image with no clothing on it
EmptyImage ==
    Image(TRUE, <<>>, <<>>, <<>>, [raises |-> FALSE, similarities |-> <<100, 20, 0, 0 - 5>>])

\* a file that is not an image
BrokenImage == Image(FALSE, <<>>, <<>>, <<>>, [raises |-> TRUE, similarities |-> <<>>])

Images == {SuitImage, BeachImage, TwinImage, EmptyImage, BrokenImage}

\* an upload without a filename
NamelessUpload == [EmptyImage EXCEPT !.filename = FALSE]

\* an upload that save_upload fails to write (the upload directory is gone)
UnsavedUpload == [EmptyImage EXCEPT !.savable = FALSE]

\* a file that PIL verifies and cv2.imread cannot read
UndecodedUpload == [EmptyImage EXCEPT !.readable = FALSE]

\* what POST /analyze is sent
Uploads == Images \cup {NamelessUpload, UnsavedUpload, UndecodedUpload}

\* occasion arguments: three of the keys and a string that is no key
OccasionArgs == {"job_interview", "beach_vacation", "date_night", "gala"}

\* the requests the process serves
Requests == {1, 2}

\* how a request reaches the analyzer: through POST /analyze, or by a direct
\* call of OutfitAnalyzer.analyze_outfit
Entries == {"http", "direct"}

NewRequest(entry, occasion, image) ==
    [pc |-> "start", entry |-> entry, occasion |-> occasion, image |-> image,
     detections |-> <<>>, i |-> 0, all_colors |-> <<>>, scores |-> NoScores,
     final_score |-> Exact(0), feedback |-> "", result |-> NoResult,
     error |-> NoError,
     did |-> {}]

\* The handler is a coroutine on one event loop and calls analyze_outfit
\* synchronously: a request runs from one suspension point to the next with
\* no other request running in between.  A request is suspended before it
\* starts, at "await file.read()", and once it is over.
Suspended(q) == q.pc \in {"start", "await_read", "done", "raised"}
LoopFree(r) == \A o \in DOMAIN req \ {r} : Suspended(req[o])

\* an exception leaves analyze_outfit: to the handler's except clause, or to
\* the direct caller
Raise(q, e) ==
    [q EXCEPT !.pc = IF q.entry = "http" THEN "respond" ELSE "raised", !.error = e]

\* main.py lines 877-890: the handler validates the occasion first, then
\* asks for a filename, then suspends at "await file.read()"
HttpValidate(r) ==
    /\ req[r].pc = "start" /\ req[r].entry = "http" /\ LoopFree(r)
    /\ req' = [req EXCEPT ![r] =
                  IF req[r].occasion \notin OccasionKeys
                  THEN [@ EXCEPT !.pc = "raised", !.error = Http400InvalidOccasion]
                  ELSE IF ~req[r].image.filename
                  THEN [@ EXCEPT !.pc = "raised", !.error = Http400NoFilename]
                  ELSE [@ EXCEPT !.pc = "await_read"]]
    /\ UNCHANGED <<modelVars, fileVars, ext, eng, fin, cls>>

\* main.py lines 890-917: the file is validated, saved (a failure is an HTTP
\* 500), the analyzer is asked for (HTTP 503 without one) and analyze_outfit
\* is called
HttpRead(r) ==
    /\ req[r].pc = "await_read" /\ LoopFree(r)
    /\ req' = [req EXCEPT ![r] =
                  IF ~req[r].image.valid
                  THEN [@ EXCEPT !.pc = "raised", !.error = Http400InvalidFile]
                  ELSE IF ~req[r].image.savable
                  THEN [@ EXCEPT !.pc = "raised", !.error = Http500UploadFailed]
                  ELSE IF ~outfit_analyzer
                  THEN [@ EXCEPT !.pc = "raised", !.error = Http503NoAnalyzer]
                  ELSE [@ EXCEPT !.pc = "ensure"]]
    /\ UNCHANGED <<modelVars, fileVars, ext, eng, fin, cls>>

\* a direct call of analyze_outfit(image_path, occasion)
DirectCall(r) ==
    /\ outfit_analyzer
    /\ req[r].pc = "start" /\ req[r].entry = "direct" /\ LoopFree(r)
    /\ req' = [req EXCEPT ![r].pc = "ensure"]
    /\ UNCHANGED <<modelVars, fileVars, ext, eng, fin, cls>>

\* outfit_analyzer.py lines 59-60 and 32-43: _ensure_models_loaded
ReqEnsureModels(r) ==
    /\ req[r].pc = "ensure"
    /\ IF ~_models_ready /\ (~yolo_model \/ ~clip_model)
       THEN /\ req' = [req EXCEPT ![r] = Raise(@, ModelsNotLoaded)]
            /\ UNCHANGED _models_ready
       ELSE /\ req' = [req EXCEPT ![r].pc = "occasion"]
            /\ _models_ready' = TRUE
    /\ UNCHANGED <<yolo_model, clip_model, outfit_analyzer, fileVars, ext, eng,
                   fin, cls>>

\* outfit_analyzer.py lines 62-63
ReqCheckOccasion(r) ==
    /\ req[r].pc = "occasion"
    /\ req' = [req EXCEPT ![r] =
                  IF req[r].occasion \notin OccasionKeys
                  THEN Raise(@, InvalidOccasion)
                  ELSE [@ EXCEPT !.pc = "load"]]
    /\ UNCHANGED <<modelVars, fileVars, ext, eng, fin, cls>>

\* outfit_analyzer.py lines 68 and 110-118: _load_image
ReqLoadImage(r) ==
    /\ req[r].pc = "load"
    /\ req' = [req EXCEPT ![r] =
                  IF ~req[r].image.readable
                  THEN Raise(@, ImageNotLoaded)
                  ELSE [@ EXCEPT !.pc = "detect"]]
    /\ UNCHANGED <<modelVars, fileVars, ext, eng, fin, cls>>

\* outfit_analyzer.py lines 71 and 120-145: _detect_clothing_items; then
\* line 149, all_colors = []
ReqDetect(r) ==
    /\ req[r].pc = "detect"
    /\ req' = [req EXCEPT ![r] =
                  IF ~yolo_model
                  THEN Raise(@, YoloNotAvailable)
                  ELSE [@ EXCEPT !.pc = "loop", !.detections = req[r].image.boxes,
                                 !.did = @ \cup {"detector"},
                                 !.all_colors = <<>>, !.i = 1]]
    /\ UNCHANGED <<modelVars, fileVars, ext, eng, fin, cls>>

\* outfit_analyzer.py lines 153-160: the loop over the detections calls
\* get_colors_from_bbox(image, detection['bbox'], n_colors=2)
ReqNextItem(r) ==
    /\ req[r].pc = "loop"
    /\ IF req[r].i > Len(req[r].detections)
       THEN /\ req' = [req EXCEPT ![r].pc = "score"]
            /\ UNCHANGED ext
       ELSE /\ req' = [req EXCEPT ![r].pc = "extracting",
                                  ![r].did = @ \cup {"extraction"}]
            /\ ext' = [ext EXCEPT ![r] =
                          NewCall(TRUE, req[r].detections[req[r].i].bbox, 2,
                                  req[r].image.pixels[req[r].i])]
    /\ UNCHANGED <<modelVars, fileVars, eng, fin, cls>>

\* the list the get_colors_from_bbox call of request r hands back
ReturnedColors(frames, r) == frames[r].ret

\* outfit_analyzer.py lines 156-163: colors = ...; detection['colors'] =
\* colors; all_colors.extend(colors)
ReqCollect(r) ==
    /\ req[r].pc = "extracting" /\ ext[r].pc = "returned"
    /\ LET colors == ReturnedColors(ext, r)
       IN  req' = [req EXCEPT ![r].pc = "loop",
                              ![r].detections[req[r].i].colors = colors,
                              ![r].all_colors = @ \o colors,
                              ![r].i = @ + 1]
    /\ ext' = [ext EXCEPT ![r] = IdleFrame]
    /\ UNCHANGED <<modelVars, fileVars, eng, fin, cls>>

\* outfit_analyzer.py line 78: scores = self._calculate_all_scores(...)
ReqScore(r) ==
    /\ req[r].pc = "score"
    /\ req' = [req EXCEPT ![r].pc = "finish",
                          ![r].did = @ \cup {"scoring"},
                          ![r].scores =
                              _calculate_all_scores(clip_model, req[r].image.sim,
                                                    req[r].occasion, req[r].detections,
                                                    req[r].all_colors)]
    /\ UNCHANGED <<modelVars, fileVars, ext, eng, fin, cls>>

\* outfit_analyzer.py lines 81-108: final score, feedback, result dict
ReqFinish(r) ==
    /\ req[r].pc = "finish"
    /\ LET final_score == _calculate_final_score(req[r].scores)
           feedback == _generate_feedback(final_score, req[r].occasion)
       IN  req' = [req EXCEPT ![r].pc = IF req[r].entry = "http" THEN "respond"
                                        ELSE "done",
                              ![r].final_score = final_score,
                              ![r].feedback = feedback,
                              ![r].result =
                                  ResultDict(req[r].occasion, req[r].detections,
                                             req[r].all_colors, req[r].scores,
                                             final_score, feedback)]
    /\ UNCHANGED <<modelVars, fileVars, ext, eng, fin, cls>>

\* main.py lines 919-974: the handler returns the analysis result, or turns
\* the exception of analyze_outfit into an HTTP 500 (the suggestion text and
\* the request metadata added to the response are left out)
HttpRespond(r) ==
    /\ req[r].pc = "respond"
    /\ req' = [req EXCEPT ![r] =
                  IF req[r].error # NoError
                  THEN [@ EXCEPT !.pc = "raised", !.error = Http500(req[r].error)]
                  ELSE [@ EXCEPT !.pc = "done"]]
    /\ UNCHANGED <<modelVars, fileVars, ext, eng, fin, cls>>

(***************************************************************************)
(* Spec: one process after startup serving two requests                    *)
(***************************************************************************)

\* the requests a process may be handed: uploads to POST /analyze and, when
\* there is an analyzer, direct calls on images
NewRequests(analyzer) ==
    {NewRequest("http", o, m) : o \in OccasionArgs, m \in Uploads}
    \cup (IF analyzer
          THEN {NewRequest("direct", o, m) : o \in OccasionArgs, m \in Images}
          ELSE {})

\* after startup (main.py lines 63-74): each model is loaded or its load
\* failed, and the analyzer is constructed with _models_ready False; or the
\* application is served without its startup event and there is no analyzer
Init ==
    /\ yolo_model \in BOOLEAN /\ clip_model \in BOOLEAN
    /\ _models_ready = FALSE
    /\ outfit_analyzer \in BOOLEAN
    /\ NoFiles /\ NoCls /\ NoEng /\ NoFin
    /\ req \in [Requests -> NewRequests(outfit_analyzer)]
    /\ ext = [r \in Requests |-> IdleFrame]

Next ==
    \/ cleanup_all_temp_files
    \/ \E r \in Requests :
        \/ HttpValidate(r) \/ HttpRead(r) \/ DirectCall(r)
        \/ ReqEnsureModels(r) \/ ReqCheckOccasion(r) \/ ReqLoadImage(r)
        \/ ReqDetect(r) \/ ReqNextItem(r) \/ ReqCollect(r)
        \/ ReqScore(r) \/ ReqFinish(r) \/ HttpRespond(r)
        \/ ExtEnter(r) \/ ExtSimple(r) \/ ExtThiefSave(r) \/ ExtThiefPalette(r)
        \/ ExtThiefCleanup(r) \/ ExtHsv(r) \/ ExtCombine(r)

Spec == Init /\ [][Next]_vars

\* the request is over: it returned a result or an error reached its caller
Over(q) == q.pc \in {"done", "raised"}

\* C3: with the similarity (CLIP) backend not loaded and the detector loaded,
\* analyze_outfit on a valid occasion and a loadable image does not raise: it
\* returns a result whose clip_contextual sub-score is the fallback 6.0.
\* (Through POST /analyze the image is one the handler hands to the analyzer.)
C3_ClipUnavailableFallsBack ==
    \A r \in DOMAIN req :
        ( /\ Over(req[r]) /\ yolo_model /\ ~clip_model /\ outfit_analyzer
          /\ req[r].occasion \in OccasionKeys
          /\ req[r].image.filename /\ req[r].image.valid
          /\ req[r].image.savable /\ req[r].image.readable )
        => /\ req[r].pc = "done"
           /\ req[r].error = NoError
           /\ req[r].result.scoring_breakdown.clip_contextual = 60

\* C4: a request with an occasion outside the fixed keys ends with the
\* invalid-occasion error and does no detection, extraction or scoring.
C4_InvalidOccasionErrorAlways ==
    \A r \in DOMAIN req :
        req[r].occasion \notin OccasionKeys =>
            /\ req[r].did = {}
            /\ Over(req[r]) =>
                  /\ req[r].pc = "raised"
                  /\ req[r].error \in {InvalidOccasion, Http400InvalidOccasion}

\* every request that is over ended as it ends when it is served alone: same
\* error, same result dict (detections with their colours, sub-scores, final
\* score, feedback, counters)
ResultsAsAlone ==
    \A r \in DOMAIN req :
        Over(req[r]) =>
            LET alone == RunAlone(req[r].entry, outfit_analyzer, yolo_model,
                                  clip_model, req[r].occasion, req[r].image)
            IN  /\ req[r].error = alone.error
                /\ req[r].result = alone.result

\* a request entering analyze_outfit never finds the analyzer's _models_ready
\* flag set by another request, nor a path another request left in the
\* detector's temp_files list
NoStateAcrossRequests ==
    \A r \in DOMAIN req :
        req[r].pc = "ensure" => (~_models_ready /\ temp_files = <<>>)

\* C9: the result of each of two requests equals the result it produces
\* alone, and no mutable state written by one request is read or modified by
\* the other.
C9_NoSharedState == ResultsAsAlone /\ NoStateAcrossRequests

(***************************************************************************)
(* SpecItems: the scoring engine on every outfit (any classes detected,    *)
(* any occasion), without colours and without the similarity backend       *)
(***************************************************************************)

\* the list holding the classes of the set S once each, in CLASS_NAMES order
ClassListOf(S) ==
    LET Keep(c) == c \in S
    IN  SelectSeq(CLASS_NAMES, Keep)

\* every such list, and each non-empty one with its first class detected twice
ItemLists ==
    LET once == {ClassListOf(S) : S \in SUBSET ClassSet}
    IN  once \cup {l \o <<l[1]>> : l \in once \ {<<>>}}

InitItems ==
    /\ yolo_model = TRUE /\ clip_model = FALSE /\ _models_ready = FALSE
    /\ outfit_analyzer = TRUE
    /\ \E o \in OccasionKeys, l \in ItemLists :
          eng = [occasion |-> o,
                 detections |-> [i \in 1..Len(l) |-> [class |-> l[i]]],
                 all_colors |-> <<>>,
                 sim |-> [raises |-> TRUE, similarities |-> <<>>],
                 outs |-> <<>>]
    /\ NoFiles /\ NoCls /\ NoFin
    /\ ext = <<>> /\ req = <<>>

SpecItems == InitItems /\ [][NextScore]_vars

\* the classes detected, as a set
EngClasses == SetOf(ItemsOf(eng.detections))

\* C11: at job_interview, work_meeting and business_casual, for every set of
\* detected classes, completeness = clamp(5.0 + 2.0*[shirt and (pants or
\* skirt)] + 1.0*[jacket] + 1.0*[shoe] - 2.0*[shorts], 0, 10); job_interview
\* with {shirt, pants, shoe} gives 8.0.
C11_FormalLeaningCompleteness ==
    \A i \in 1..Len(eng.outs) :
        LET S == EngClasses
            completeness == eng.outs[i].scores.completeness
        IN  /\ eng.occasion \in {"job_interview", "work_meeting", "business_casual"} =>
                  completeness =
                      Exact(Clamp(500 + 200 * Ind("shirt" \in S /\ ("pants" \in S \/ "skirt" \in S))
                                + 100 * Ind("jacket" \in S) + 100 * Ind("shoe" \in S)
                                - 200 * Ind("shorts" \in S), 0, 1000))
            /\ (eng.occasion = "job_interview" /\ S = {"shirt", "pants", "shoe"}) =>
                  completeness = Exact(800)

\* C11 witness: a work meeting in shirt, skirt, jacket, shoes and shorts has
\* been scored 5.0 + 2.0 + 1.0 + 1.0 - 2.0 = 7.0
C11_Witness ==
    /\ eng.occasion = "work_meeting"
    /\ EngClasses = {"shirt", "skirt", "jacket", "shoe", "shorts"}
    /\ Len(eng.outs) >= 1 /\ eng.outs[1].scores.completeness = Exact(700)

\* C12: at formal_event, for every set of detected classes, completeness =
\* clamp(5.0 + 2.0*[dress or (shirt and pants)] + 1.0*[shoe] - 1.0*[shorts or
\* sunglass], 0, 10): the penalty is taken once when both shorts and
\* sunglasses are present, and shirt with skirt earns no +2.0.
C12_FormalEventCompleteness ==
    \A i \in 1..Len(eng.outs) :
        LET S == EngClasses
            completeness == eng.outs[i].scores.completeness
        IN  eng.occasion = "formal_event" =>
              /\ completeness =
                     Exact(Clamp(500 + 200 * Ind("dress" \in S \/ ("shirt" \in S /\ "pants" \in S))
                               + 100 * Ind("shoe" \in S)
                               - 100 * Ind("shorts" \in S \/ "sunglass" \in S), 0, 1000))
              /\ S = {"shorts", "sunglass"} => completeness = Exact(400)
              /\ S = {"shirt", "skirt"} => completeness = Exact(500)

\* C12 witness: a formal event in shorts and sunglasses has been scored 4.0
C12_Witness ==
    /\ eng.occasion = "formal_event" /\ EngClasses = {"shorts", "sunglass"}
    /\ Len(eng.outs) >= 1 /\ eng.outs[1].scores.completeness = Exact(400)

\* C13: at beach_vacation, for every set of detected classes, completeness =
\* clamp(5.0 + 1.0*[shorts or skirt or dress] + 1.0*[sunglass] - 1.0*[jacket],
\* 0, 10).
C13_BeachCompleteness ==
    \A i \in 1..Len(eng.outs) :
        LET S == EngClasses
        IN  eng.occasion = "beach_vacation" =>
              eng.outs[i].scores.completeness =
                  Exact(Clamp(500 + 100 * Ind("shorts" \in S \/ "skirt" \in S \/ "dress" \in S)
                            + 100 * Ind("sunglass" \in S)
                            - 100 * Ind("jacket" \in S), 0, 1000))

\* C13 witness: a beach outfit of a jacket alone has been scored 4.0
C13_Witness ==
    /\ eng.occasion = "beach_vacation" /\ EngClasses = {"jacket"}
    /\ Len(eng.outs) >= 1 /\ eng.outs[1].scores.completeness = Exact(400)

\* C14: at date_night, casual_hangout and night_out, for every list of
\* detections, completeness = clamp(5.0 + 1.0*[at least 2 detections] +
\* 0.5*[shoe], 0, 10); two detections of the same class count as 2.
C14_OtherOccasionCompleteness ==
    \A i \in 1..Len(eng.outs) :
        eng.occasion \in {"date_night", "casual_hangout", "night_out"} =>
            eng.outs[i].scores.completeness =
                Exact(Clamp(500 + 100 * Ind(Len(eng.detections) >= 2)
                          + 50 * Ind("shoe" \in EngClasses), 0, 1000))

\* C14 witness: a night out with the same class detected twice and nothing
\* else has been scored 6.0
C14_Witness ==
    /\ eng.occasion = "night_out"
    /\ Len(eng.detections) = 2 /\ Cardinality(EngClasses) = 1
    /\ "shoe" \notin EngClasses
    /\ Len(eng.outs) >= 1 /\ eng.outs[1].scores.completeness = Exact(600)

\* C15: for every occasion and set of detected classes, coherence = 7.0 minus,
\* at job_interview, work_meeting and formal_event, 2.0 when a formal item
\* (jacket, shirt) and a casual item (shorts, sunglass) are both present and
\* 3.0 when a casual item is present without a formal one; at beach_vacation
\* and casual_hangout, 1.0 when a formal item is present without a casual one;
\* nothing otherwise; clamped to [0, 10].
C15_Coherence ==
    \A i \in 1..Len(eng.outs) :
        LET S == EngClasses
            formal == S \cap {"jacket", "shirt"} # {}
            casual == S \cap {"shorts", "sunglass"} # {}
            minus ==
                IF eng.occasion \in {"job_interview", "work_meeting", "formal_event"}
                THEN (IF formal /\ casual THEN 200 ELSE IF casual THEN 300 ELSE 0)
                ELSE IF eng.occasion \in {"beach_vacation", "casual_hangout"}
                THEN (IF formal /\ ~casual THEN 100 ELSE 0)
                ELSE 0
        IN  eng.outs[i].scores.coherence = Exact(Clamp(700 - minus, 0, 1000))

\* C15 witness: a job interview in shorts with no formal item has been scored
\* 4.0 for coherence
C15_Witness ==
    /\ eng.occasion = "job_interview"
    /\ "shorts" \in EngClasses /\ EngClasses \cap {"jacket", "shirt"} = {}
    /\ Len(eng.outs) >= 1 /\ eng.outs[1].scores.coherence = Exact(400)

(***************************************************************************)
(* SpecColors: the scoring engine on every list of colours                 *)
(***************************************************************************)

\* colour names: warm ones, cool ones, neutral ones, and cyan, which is none
\* of the three
PaletteNames ==
    <<"red", "orange", "pink",
      "blue", "green", "purple", "teal", "navy",
      "black", "white", "gray", "beige",
      "cyan">>

\* the list holding the names of the set S once each, in PaletteNames order
NameListOf(S) ==
    LET Keep(c) == c \in S
        names == SelectSeq(PaletteNames, Keep)
    IN  [k \in 1..Len(names) |-> [name |-> names[k]]]

\* every such list, and each non-empty one with its first name once more (a
\* second item of that colour)
NameLists ==
    LET once == {NameListOf(S) : S \in SUBSET SetOf(PaletteNames)}
    IN  once \cup {l \o <<l[1]>> : l \in once \ {<<>>}}

InitColors ==
    /\ yolo_model = TRUE /\ clip_model = FALSE /\ _models_ready = FALSE
    /\ outfit_analyzer = TRUE
    /\ \E l \in NameLists :
          eng = [occasion |-> "date_night",
                 detections |-> <<[class |-> "dress"]>>,
                 all_colors |-> l,
                 sim |-> [raises |-> TRUE, similarities |-> <<>>],
                 outs |-> <<>>]
    /\ NoFiles /\ NoCls /\ NoFin
    /\ ext = <<>> /\ req = <<>>

SpecColors == InitColors /\ [][NextScore]_vars

\* the distinct colour names handed to the engine
EngNames == {eng.all_colors[i].name : i \in 1..Len(eng.all_colors)}

\* more than one warm and more than one cool name among the distinct names
WarmAndCoolPairs(names) ==
    /\ Cardinality(names \cap {"red", "orange", "yellow", "pink"}) > 1
    /\ Cardinality(names \cap {"blue", "green", "purple", "teal", "navy"}) > 1

\* the harmony score before the clash deduction: 7.0, less 2.0 for more than
\* 4 names or else 1.0 for more than 3, plus 1.0 for a neutral name
HarmonyBeforeClash(names) ==
    700 - (IF Cardinality(names) > 4 THEN 200
           ELSE IF Cardinality(names) > 3 THEN 100 ELSE 0)
        + 100 * Ind(names \cap {"black", "white", "gray", "dark_gray",
                                 "light_gray", "beige"} # {})

\* C16: for a non-empty colour list, harmony = clamp(7.0 - (2.0 for more than
\* 4 distinct names, else 1.0 for more than 3) + (1.0 for a neutral name) -
\* (1.5 for a clash), 0, 10); for an empty list it is 5.0; {red, blue, green,
\* purple} gives 6.0.
C16_ColorHarmony ==
    \A i \in 1..Len(eng.outs) :
        LET harmony == eng.outs[i].scores.color_harmony
        IN  /\ eng.all_colors = <<>> => harmony = Exact(500)
            /\ eng.all_colors # <<>> =>
                  harmony = Exact(Clamp(HarmonyBeforeClash(EngNames)
                                  - 150 * Ind(WarmAndCoolPairs(EngNames)), 0, 1000))
            /\ EngNames = {"red", "blue", "green", "purple"} => harmony = Exact(600)

\* C16 witness: six names, a neutral one and a clash among them, have been
\* scored 7.0 - 2.0 + 1.0 - 1.5 = 4.5
C16_Witness ==
    /\ EngNames = {"red", "orange", "blue", "navy", "black", "cyan"}
    /\ Len(eng.outs) >= 1 /\ eng.outs[1].scores.color_harmony = Exact(450)

\* C17: the clash deduction of 1.5 is taken if and only if more than one of
\* the distinct names is warm (red, orange, yellow, pink) and more than one is
\* cool (blue, green, purple, teal, navy); a name repeated across items counts
\* once, and one warm with one cool name is no clash.
C17_ClashRule ==
    \A i \in 1..Len(eng.outs) :
        eng.all_colors # <<>> =>
            LET deducted == HarmonyBeforeClash(EngNames)
                            - eng.outs[i].scores.color_harmony.dec
            IN  /\ eng.outs[i].scores.color_harmony.exc = 0
                /\ deducted \in {0, 150}
                /\ deducted = 150 <=> WarmAndCoolPairs(EngNames)

\* C17 witness: red listed twice with blue and green, one warm name among the
\* distinct ones, has been scored without the deduction
C17_Witness ==
    /\ EngNames = {"red", "blue", "green"} /\ Len(eng.all_colors) = 4
    /\ Len(eng.outs) >= 1 /\ eng.outs[1].scores.color_harmony = Exact(700)

\* C18: for detections {shirt, pants}, occasion work_meeting, a contextual
\* sub-score of 8.0 and colours {navy, white}, the engine yields harmony 8.0
\* (7.0 plus the neutral bonus), completeness 7.0, coherence 7.0, the final
\* score 0.6*8 + 0.2*8 + 0.1*7 + 0.1*7 = 7.8, and the feedback sentence of the
\* band from 6.  The sub-scores are held exactly; the final score is the sum
\* as the doubles give it, 7.800000000000001, within RoundingSlack of 7.8.
C18_EndToEnd ==
    \A i \in 1..Len(eng.outs) :
        ( /\ ItemsOf(eng.detections) = <<"shirt", "pants">>
          /\ eng.occasion = "work_meeting"
          /\ eng.outs[i].scores.clip_score = Exact(800)
          /\ eng.all_colors = <<[name |-> "navy"], [name |-> "white"]>> )
        => /\ eng.outs[i].scores.color_harmony = Exact(800)
           /\ eng.outs[i].scores.completeness = Exact(700)
           /\ eng.outs[i].scores.coherence = Exact(700)
           /\ Near(eng.outs[i].final_score, 7800, RoundingSlack)
           /\ eng.outs[i].feedback =
                  "Good outfit for business work meeting. Well coordinated overall."

\* C18 witness: the engine has scored that outfit, the backend answering a
\* best similarity of 0.6, which is the contextual sub-score 8.0
C18_Witness ==
    /\ ItemsOf(eng.detections) = <<"shirt", "pants">>
    /\ eng.occasion = "work_meeting"
    /\ eng.all_colors = <<[name |-> "navy"], [name |-> "white"]>>
    /\ clip_model /\ ~eng.sim.raises /\ MaxOf(eng.sim.similarities) = 60
    /\ Len(eng.outs) >= 1
    /\ eng.outs[1].scores.clip_score = Exact(800)
    /\ eng.outs[1].final_score = Float(7800, 819200)

(***************************************************************************)
(* ColorDetector._classify_color_simple (color_detector.py)                *)
(***************************************************************************)

\* the largest value of an RGB or HSV channel, and the hue the classifier
\* admits at most (cv2 hands out hues of 8-bit images below it)
MaxChannel == 255
MaxHue == 180

\* A sample handed to the classifier: whether its r, g, b lie in 0..255, and
\* the hue, saturation and value that cv2.cvtColor(..., COLOR_RGB2HSV) reads
\* off it.
HsvSample(valid, h, s, v) == [valid |-> valid, h |-> h, s |-> s, v |-> v]

\* the hue bands with no name for the hue 170
HueNameGapAt170(h) ==
    IF (h >= 0 /\ h <= 10) \/ (h > 170 /\ h <= 180) THEN "red"
    ELSE IF h > 10 /\ h <= 25 THEN "orange"
    ELSE IF h > 25 /\ h <= 35 THEN "yellow"
    ELSE IF h > 35 /\ h <= 85 THEN "green"
    ELSE IF h > 85 /\ h <= 95 THEN "cyan"
    ELSE IF h > 95 /\ h <= 125 THEN "blue"
    ELSE IF h > 125 /\ h <= 145 THEN "purple"
    ELSE IF h > 145 /\ h < 170 THEN "pink"
    ELSE "unknown"

\* lines 298-316: the name of a hue, "unknown" (line 316) when no band holds it
HueName(h) ==
    IF (h >= 0 /\ h <= 10) \/ (h >= 170 /\ h <= 180) THEN "red"
    ELSE IF h > 10 /\ h <= 25 THEN "orange"
    ELSE IF h > 25 /\ h <= 35 THEN "yellow"
    ELSE IF h > 35 /\ h <= 85 THEN "green"
    ELSE IF h > 85 /\ h <= 95 THEN "cyan"
    ELSE IF h > 95 /\ h <= 125 THEN "blue"
    ELSE IF h > 125 /\ h <= 145 THEN "purple"
    ELSE IF h > 145 /\ h < 170 THEN "pink"
    ELSE "unknown"

\* ColorDetector._classify_color_simple
_classify_color_simple(sample) ==
    IF ~sample.valid THEN "unknown"
    ELSE LET h == sample.h
             s == sample.s
             v == sample.v
         IN  IF s < 30
             THEN (IF v < 50 THEN "black"
                   ELSE IF v < 100 THEN "gray"
                   ELSE IF v < 200 THEN "light_gray"
                   ELSE "white")
             ELSE IF v < 60 THEN "black"
             ELSE HueName(h)

(***************************************************************************)
(* SpecClassify: one call of the classifier on any sample                  *)
(***************************************************************************)

\* saturations on both sides of the grayscale threshold
SaturationSamples == {0, 15, 29, 30, 31, 128, MaxChannel}

InitClassify ==
    /\ \E sample \in {HsvSample(TRUE, h, s, v) :
                          h \in 0..MaxHue, s \in SaturationSamples, v \in 0..MaxChannel}
                     \cup {HsvSample(FALSE, 0, 0, 0)} :
          cls = [valid |-> sample.valid, h |-> sample.h, s |-> sample.s,
                 v |-> sample.v, name |-> "", done |-> FALSE]
    /\ NoModels /\ NoFiles /\ NoEng /\ NoFin
    /\ ext = <<>> /\ req = <<>>

\* color_name = self._classify_color_simple(rgb)
Classify ==
    /\ ~cls.done
    /\ cls' = [cls EXCEPT !.name = _classify_color_simple(
                                        HsvSample(cls.valid, cls.h, cls.s, cls.v)),
                          !.done = TRUE]
    /\ UNCHANGED <<modelVars, fileVars, ext, req, eng, fin>>

NextClassify == Classify

SpecClassify == InitClassify /\ [][NextClassify]_vars

\* C19: a sample with saturation below 30 is named by its value alone, with
\* one of six grayscale names: black below 40, dark_gray from 40 below 80,
\* gray from 80 below 120, light_gray from 120 below 160, silver from 160
\* below 220, white from 220.
C19_GrayscaleSixNames ==
    (cls.done /\ cls.valid /\ cls.s < 30) =>
        cls.name = IF cls.v < 40 THEN "black"
                   ELSE IF cls.v < 80 THEN "dark_gray"
                   ELSE IF cls.v < 120 THEN "gray"
                   ELSE IF cls.v < 160 THEN "light_gray"
                   ELSE IF cls.v < 220 THEN "silver"
                   ELSE "white"

\* the names of the hue bands
HueNames == {"red", "orange", "yellow", "green", "cyan", "blue", "purple", "pink"}

\* C20: hue-band classification is total: a sample with saturation at least
\* 30 is never named "unknown", for every integer hue from 0 to 180; past the
\* dark branch (value at least 60) it gets the one name of its hue band, and
\* the hues 0 and 180, the two ends of the red wrap-around, are red.
C20_HueBandsTotal ==
    (cls.done /\ cls.valid /\ cls.s >= 30) =>
        /\ cls.name \in HueNames \cup {"black"}
        /\ cls.v >= 60 =>
              /\ cls.name \in HueNames
              /\ cls.h \in {0, MaxHue} => cls.name = "red"
              /\ cls.h \in 11..169 => cls.name # "red"

\* C20 witness: the hue 170, where the pink band ends and the red band
\* resumes, has been classified red on a saturated sample of middle value
C20_Witness ==
    /\ cls.done /\ cls.valid
    /\ cls.h = 170 /\ cls.s = 128 /\ cls.v = 128
    /\ cls.name = "red"

\* the colour names over the colours attached to a list of detections
NamesAttached(detections) ==
    UNION {{detections[i].colors[j].name : j \in 1..Len(detections[i].colors)} :
              i \in 1..Len(detections)}

\* C21: in the result of analyze_outfit total_items is the number of
\* detections the detector returned, unique_colors is the number of distinct
\* colour names over the colours attached to all detections, and every
\* detection carries the colour list that get_colors_from_bbox yields on its
\* box with n_colors = 2.
C21_ResultCounters ==
    \A r \in DOMAIN req :
        req[r].pc = "done" =>
            LET res == req[r].result
                img == req[r].image
            IN  /\ res.total_items = Len(img.boxes)
                /\ Len(res.detected_items) = Len(img.boxes)
                /\ res.unique_colors = Cardinality(NamesAttached(res.detected_items))
                /\ \A i \in 1..Len(res.detected_items) :
                      /\ res.detected_items[i].class = img.boxes[i].class
                      /\ res.detected_items[i].bbox = img.boxes[i].bbox
                      /\ res.detected_items[i].colors =
                             get_colors_from_bbox(TRUE, img.boxes[i].bbox, 2, img.pixels[i])

\* C21 witness: a request has returned a result for two detections that share
\* a colour name, so that fewer names than colour samples are counted
C21_Witness ==
    \E r \in DOMAIN req :
        /\ req[r].pc = "done"
        /\ req[r].result.total_items = 2
        /\ req[r].result.unique_colors = 2
        /\ Len(req[r].all_colors) = 4
        /\ \A i \in 1..2 : req[r].result.detected_items[i].colors # <<>>

\* the band of a final score (a float in thousandths), as the claim states
\* the bands
BandOf(final_score) ==
    IF AtLeast(final_score, 8000) THEN "excellent"
    ELSE IF AtLeast(final_score, 6000) /\ Below(final_score, 8000) THEN "good"
    ELSE IF AtLeast(final_score, 4000) /\ Below(final_score, 6000) THEN "decent"
    ELSE "poor"

\* the sentence of a band for an occasion description
Sentence(band, description) ==
    CASE band = "excellent" ->
             "Excellent choice for " \o description \o "! Very well put together."
      [] band = "good" ->
             "Good outfit for " \o description \o ". Well coordinated overall."
      [] band = "decent" ->
             "Decent look for " \o description \o ", but could use some improvements."
      [] band = "poor" ->
             "This outfit may not be the best choice for " \o description \o "."

\* C22: the feedback of every engine call is determined by the final score
\* and the occasion's description alone: the "Excellent choice" sentence for a
\* final score of at least 8, "Good outfit" from 6 below 8, "Decent look" from
\* 4 below 6, "may not be the best choice" below 4, each naming the fixed
\* description of the occasion.
C22_FeedbackBands ==
    \A i \in 1..Len(eng.outs) :
        eng.outs[i].feedback =
            Sentence(BandOf(eng.outs[i].final_score), OCCASIONS[eng.occasion])

\* C22 witness: an engine call ended with a final score of exactly 8.0 and
\* the "Excellent choice" sentence for its occasion
C22_Witness ==
    /\ Len(eng.outs) >= 1
    /\ eng.outs[1].final_score = Exact(8000)
    /\ eng.occasion = "business_casual"
    /\ eng.outs[1].feedback =
          "Excellent choice for business casual workplace! Very well put together."

\* the samples of a strategy's list that k-means produced and that carry a
\* name, in the order of the list (largest share first)
NamedClusters(colors) ==
    SelectSeq(colors, LAMBDA x : x.method = "kmeans" /\ x.name # "unknown")

\* C23: whenever the clustering strategy yields a named colour for a crop, the
\* first colour the call returns is the sample of the named cluster with the
\* largest share, ahead of every palette and simple-average sample.
C23_ClusterColourFirst ==
    \A c \in DOMAIN ext :
        (ext[c].pc = "returned" /\ NamedClusters(ext[c].colors_hsv) # <<>>) =>
            /\ ext[c].ret # <<>>
            /\ ext[c].ret[1] = NamedClusters(ext[c].colors_hsv)[1]

\* the names of a list of samples, in order
NamesOf(colors) == [i \in 1..Len(colors) |-> colors[i].name]

\* C24: whatever the strategies yield, the list a get_colors_from_bbox call
\* returns (the merged list, the empty list, or the fallback) holds no sample
\* named "unknown" and no two samples of the same name.
C24_NoUnknownNoDuplicates ==
    \A c \in DOMAIN ext :
        ext[c].pc = "returned" =>
            /\ \A i \in 1..Len(ext[c].ret) : ext[c].ret[i].name # "unknown"
            /\ \A i, j \in 1..Len(ext[c].ret) :
                  ext[c].ret[i].name = ext[c].ret[j].name => i = j

\* C24 witness: the strategies yielded an "unknown" sample and the same name
\* twice, and the call returned two samples
C24_Witness ==
    \E c \in DOMAIN ext :
        /\ ext[c].pc = "returned"
        /\ In("unknown", NamesOf(ext[c].colors_simple))
        /\ In("unknown", NamesOf(ext[c].colors_hsv))
        /\ In("red", NamesOf(ext[c].colors_colorthief))
        /\ In("red", NamesOf(ext[c].colors_hsv))
        /\ Len(ext[c].ret) = 2

\* the list a strategy of a call handed to the merge
StrategyList(f, strategy) ==
    CASE strategy = "simple"     -> f.colors_simple
      [] strategy = "colorthief" -> f.colors_colorthief
      [] strategy = "hsv"        -> f.colors_hsv

Strategies == {"simple", "colorthief", "hsv"}

\* the samples the strategies of a call that did not fail yielded
SamplesOfSuccessful(f) ==
    UNION {SetOf(StrategyList(f, st)) : st \in Strategies \ f.failed}

\* C25: when a strategy fails on a non-degenerate crop, the call still runs
\* the other strategies and returns the merge of what the successful ones
\* yielded: the failed strategy hands the empty list to the merge, every
\* returned sample stems from a successful strategy, every name a successful
\* strategy yielded is returned unless the list is cut at n_colors, and the
\* call returns normally (not through the handler that yields the fallback).
C25_StrategyFailureIsolated ==
    \A c \in DOMAIN ext :
        (ext[c].pc = "returned" /\ ext[c].failed # {}) =>
            /\ ext[c].ran = Strategies
            /\ \A st \in ext[c].failed : StrategyList(ext[c], st) = <<>>
            /\ SetOf(ext[c].ret) \subseteq SamplesOfSuccessful(ext[c])
            /\ Len(ext[c].ret) <= ext[c].n_colors
            /\ Len(ext[c].ret) < ext[c].n_colors =>
                  \A x \in SamplesOfSuccessful(ext[c]) :
                      x.name # "unknown" => In(x.name, [i \in 1..Len(ext[c].ret) |->
                                                            ext[c].ret[i].name])

\* C25 witness: the simple strategy alone failed, the palette and the
\* clustering ran after it and the call returned their two colours
C25_Witness ==
    \E c \in DOMAIN ext :
        /\ ext[c].pc = "returned"
        /\ ext[c].failed = {"simple"} /\ ext[c].ran = Strategies
        /\ ext[c].colors_colorthief # <<>> /\ ext[c].colors_hsv # <<>>
        /\ Len(ext[c].ret) = 2
        /\ ext[c].ret[1].method = "kmeans" /\ ext[c].ret[2].method = "colorthief"

\* the name the claim gives to a hue that two bands share as a bound: the
\* band the hue opens, not the band it closes
BoundaryName(h) ==
    CASE h = 10  -> "orange"
      [] h = 25  -> "yellow"
      [] h = 35  -> "green"
      [] h = 85  -> "cyan"
      [] h = 95  -> "blue"
      [] h = 125 -> "purple"
      [] h = 145 -> "pink"
      [] h = 170 -> "red"

BoundaryHues == {10, 25, 35, 85, 95, 125, 145, 170}

\* C26: hue-band boundaries are lower-inclusive and upper-exclusive: a
\* saturated sample of middle value whose hue is exactly 10 is orange, 25
\* yellow, 35 green, 85 cyan, 95 blue, 125 purple, 145 pink and 170 red.
C26_BoundariesLowerInclusive ==
    ( /\ cls.done /\ cls.valid
      /\ cls.s >= 30 /\ cls.v >= 60
      /\ cls.h \in BoundaryHues )
    => cls.name = BoundaryName(cls.h)

\* the dark name the claim gives to a hue
DarkName(h) ==
    CASE HueName(h) = "blue"  -> "navy"
      [] HueName(h) = "green" -> "dark_green"
      [] HueName(h) = "red"   -> "dark_red"
      [] OTHER                -> "dark_gray"

\* C27: a sample with saturation at least 30 and value below 40 gets a dark
\* name that depends on its hue: navy for a blue hue, dark_green for a green
\* hue, dark_red for a red hue, dark_gray for any other hue.
C27_DarkBranchNames ==
    (cls.done /\ cls.valid /\ cls.s >= 30 /\ cls.v < 40) =>
        cls.name = DarkName(cls.h)

(***************************************************************************)
(* SpecRanges: the scoring engine on every outfit, on every colour list,   *)
(* and on mixed inputs with the similarity backend answering               *)
(***************************************************************************)

\* classes and names that move the rule-based scores to their ends
MixedClasses == {"shirt", "pants", "jacket", "shoe", "shorts", "sunglass"}
MixedNames == {"red", "orange", "blue", "green", "cyan", "white"}

InitMixed ==
    /\ clip_model \in BOOLEAN
    /\ yolo_model = TRUE /\ _models_ready = TRUE /\ outfit_analyzer = TRUE
    /\ \E o \in OccasionKeys, S \in SUBSET MixedClasses, N \in SUBSET MixedNames,
          m \in SimOutcomesFor(clip_model) :
          eng = [occasion |-> o,
                 detections |-> [i \in 1..Len(ClassListOf(S)) |->
                                    [class |-> ClassListOf(S)[i]]],
                 all_colors |-> NameListOf(N),
                 sim |-> m, outs |-> <<>>]
    /\ NoFiles /\ NoCls /\ NoFin
    /\ ext = <<>> /\ req = <<>>

InitRanges == InitItems \/ InitColors \/ InitMixed

SpecRanges == InitRanges /\ [][NextScore]_vars

\* C28: the clamps of the rule-based scores never bind.  For every occasion,
\* every list of detections and every colour list, completeness lies in
\* [3.0, 9.0], coherence in [4.0, 7.0] and colour harmony in [3.5, 8.0]; a
\* clamp to [0, 10] that yields a value strictly inside (0, 10) has left its
\* argument unchanged, so these are the unclamped values.  With the
\* contextual score in [0, 10] the weighted sum then lies in [0, 10], as a
\* decimal and as the doubles add it up, and the final score is that sum
\* itself.
C28_ClampsNeverBind ==
    \A i \in 1..Len(eng.outs) :
        LET scores == eng.outs[i].scores
        IN  /\ AtLeast(scores.completeness, 300) /\ ~Above(scores.completeness, 900)
            /\ AtLeast(scores.coherence, 400) /\ ~Above(scores.coherence, 700)
            /\ AtLeast(scores.color_harmony, 350) /\ ~Above(scores.color_harmony, 800)
            /\ (AtLeast(scores.clip_score, 0) /\ ~Above(scores.clip_score, 1000)) =>
                  /\ WeightedSum(scores) >= 0 /\ WeightedSum(scores) <= 10000
                  /\ AtLeast(weighted_sum(scores), 0)
                  /\ ~Above(weighted_sum(scores), 10000)
                  /\ eng.outs[i].final_score = weighted_sum(scores)
                  /\ eng.outs[i].final_score.dec = WeightedSum(scores)

\* C28 witness: an engine call with every sub-score at the top of its range
\* (contextual 10.0, harmony 8.0, completeness 9.0, coherence 7.0) ended with
\* the weighted sum 9.2, the double just below it
C28_Witness ==
    /\ Len(eng.outs) >= 1
    /\ eng.outs[1].scores = [clip_score |-> Exact(1000), color_harmony |-> Exact(800),
                             completeness |-> Exact(900), coherence |-> Exact(700)]
    /\ eng.outs[1].final_score = Float(9200, 0 - 819200)

\* the band of a reported style_score (in tenths)
BandOfStyleScore(style_score) ==
    IF style_score >= 80 THEN "excellent"
    ELSE IF style_score >= 60 THEN "good"
    ELSE IF style_score >= 40 THEN "decent"
    ELSE "poor"

\* C29: in every result of analyze_outfit the feedback sentence is the one of
\* the band of the reported style_score, the final score rounded to one
\* decimal: "Excellent choice" iff style_score >= 8, "Good outfit" iff
\* 6 <= style_score < 8, "Decent look" iff 4 <= style_score < 6, the last
\* sentence iff style_score < 4.
C29_FeedbackAgreesWithStyleScore ==
    \A r \in DOMAIN req :
        req[r].pc = "done" =>
            req[r].result.contextual_feedback =
                Sentence(BandOfStyleScore(req[r].result.style_score),
                         req[r].result.occasion_description)

(***************************************************************************)
(* SpecLoader: one analyzer called again and again while the model loader  *)
(* loads and unloads models between the calls (services/model_loader.py)   *)
(***************************************************************************)

\* the one caller of the analyzer
Callers == {1}

\* no call of analyze_outfit is running
BetweenCalls == \A r \in DOMAIN req : req[r].pc \in {"start", "done", "raised"}

\* ModelLoader.load_yolo_model: the model is loaded, or the file is missing
\* or YOLO raises and the reference is left as it was
LoadYolo ==
    /\ BetweenCalls
    /\ \E loaded \in BOOLEAN : yolo_model' = (loaded \/ yolo_model)
    /\ UNCHANGED <<clip_model, _models_ready, outfit_analyzer, fileVars, ext, req,
                   eng, fin, cls>>

\* ModelLoader.load_clip_model: likewise
LoadClip ==
    /\ BetweenCalls
    /\ \E loaded \in BOOLEAN : clip_model' = (loaded \/ clip_model)
    /\ UNCHANGED <<yolo_model, _models_ready, outfit_analyzer, fileVars, ext, req,
                   eng, fin, cls>>

\* ModelLoader.unload_models: every model reference is reset to None; the
\* analyzer's _models_ready is not touched
UnloadModels ==
    /\ BetweenCalls
    /\ yolo_model' = FALSE /\ clip_model' = FALSE
    /\ UNCHANGED <<_models_ready, outfit_analyzer, fileVars, ext, req, eng, fin,
                   cls>>

\* Calls go on until the process has created this many temp files
MaxTempPaths == 2

\* the caller, its last call over, prepares the next call of analyze_outfit
NextCall ==
    /\ next_path <= MaxTempPaths
    /\ \E r \in Callers :
          /\ Over(req[r])
          /\ \E o \in OccasionArgs, m \in Images :
                req' = [req EXCEPT ![r] = NewRequest("direct", o, m)]
    /\ UNCHANGED <<modelVars, fileVars, ext, eng, fin, cls>>

\* a fresh process: ModelLoader() holds no model, OutfitAnalyzer() has
\* _models_ready False; the arguments of the first call are chosen
InitLoader ==
    /\ yolo_model = FALSE /\ clip_model = FALSE
    /\ _models_ready = FALSE /\ outfit_analyzer = TRUE
    /\ NoFiles /\ NoCls /\ NoEng /\ NoFin
    /\ req \in [Callers -> {NewRequest("direct", o, m) :
                               o \in OccasionArgs, m \in Images}]
    /\ ext = [r \in Callers |-> IdleFrame]

NextLoader ==
    \/ LoadYolo \/ LoadClip \/ UnloadModels \/ NextCall
    \/ cleanup_all_temp_files
    \/ \E r \in Callers :
          \/ DirectCall(r)
          \/ ReqEnsureModels(r) \/ ReqCheckOccasion(r) \/ ReqLoadImage(r)
          \/ ReqDetect(r) \/ ReqNextItem(r) \/ ReqCollect(r)
          \/ ReqScore(r) \/ ReqFinish(r)
          \/ ExtEnter(r) \/ ExtSimple(r) \/ ExtThiefSave(r) \/ ExtThiefPalette(r)
          \/ ExtThiefCleanup(r) \/ ExtHsv(r) \/ ExtCombine(r)

SpecLoader == InitLoader /\ [][NextLoader]_vars

\* C30: the readiness decision of analyze_outfit depends on the loader's
\* current state only: whatever loads, unloads and calls came before, a call
\* that reaches the readiness check while the detector or the similarity
\* model is not loaded is refused there with RuntimeError("Models not
\* properly loaded"), as the first call on a fresh analyzer would be.
C30_ReadinessFromLoaderOnly ==
    [][ \A r \in DOMAIN req :
          (req[r].pc = "ensure" /\ ~(yolo_model /\ clip_model)) =>
              /\ req'[r].pc = "raised"
              /\ req'[r].error = ModelsNotLoaded
      ]_vars

====
